---- MODULE Spec2Model ----
(***************************************************************************)
(* Model of the reconciliation engine of AmitKumarDas/decide:              *)
(*   - pkg/client/k8s/v1alpha1/unstructured.go : the get / create / update *)
(*     primitives, the apply closure and the updater pipeline;             *)
(*   - the simple installer (Install, installErrors).                      *)
(* The remote store is the kubernetes dynamic client: a map from           *)
(* (namespace, name) to the stored object.                                 *)
(***************************************************************************)
EXTENDS Integers, Sequences, FiniteSets, TLC

VARIABLES store, options, applierNs, built, lastApply, prevApply,
          config, errors, runs, lastRun, pipe, catalog, procs, inst

vars == <<store, options, applierNs, built, lastApply, prevApply,
          config, errors, runs, lastRun, pipe, catalog, procs, inst>>

(***************************************************************************)
(* Bounds                                                                  *)
(***************************************************************************)
\* longest install-spec list of a configuration
MaxEntries == 2
\* Install calls made on one installer instance
MaxRuns == 2
\* store calls that fail within one Install run
MaxFaults == 1
\* longest list of artifacts a client hands to a list updater
MaxArtifacts == 3
\* apply invocations that run at the same time
MaxProcs == 2
\* longest list of updaters a client composes
MaxStages == 2

(***************************************************************************)
(* Values                                                                  *)
(***************************************************************************)
\* names are sequences of characters, so that trimming is computed
NameA == <<"a">>
NameB == <<"b">>
StoreNames == {NameA, NameB}
BlankNames == {<<>>, <<" ">>}
Namespaces == {"default", "openebs"}
Contents == {1, 2}
Keys == Namespaces \X StoreNames

\* a nil *unstructured.Unstructured
Nil == [nil |-> TRUE]
\* a slot of the store that holds nothing
Absent == [absent |-> TRUE]

\* the fields of an unstructured instance the engine reads or writes
Unstruct(name, ns, body, labels, annotations) ==
  [name |-> name, ns |-> ns, body |-> body,
   labels |-> labels, annotations |-> annotations]

\* a nil error
NoErr == [kind |-> "nil"]
\* fmt.Errorf(msg)
Errorf(msg) == [kind |-> "errorf", msg |-> msg]
\* errors.Wrap / errors.Wrapf of github.com/pkg/errors: nil stays nil,
\* any other error becomes a new error that carries the message and the cause
Wrap(err, msg) ==
  IF err = NoErr THEN NoErr
  ELSE [kind |-> "wrapped", msg |-> msg, cause |-> err]
\* errors.Cause: follow the causes down to the first error that has none
RECURSIVE Cause(_)
Cause(err) == IF err.kind = "wrapped" THEN Cause(err.cause) ELSE err

\* errors the API server answers with
NotFoundErr == [kind |-> "NotFound"]
AlreadyExistsErr == [kind |-> "AlreadyExists"]
StoreErr == [kind |-> "StoreError"]
\* the answer to a write of an object without a name
InvalidErr == [kind |-> "Invalid"]
\* error of NewDynamicGetter()() when no dynamic client can be built
DynamicErr == [kind |-> "DynamicClientError"]

\* apierrors.IsNotFound: true of the API status error with reason NotFound
\* itself only; a nil error and a wrapped error are not NotFound
IsNotFound(err) == err.kind = "NotFound"

\* strings.TrimSpace on a sequence of characters
RECURSIVE TrimLeft(_)
TrimLeft(s) ==
  IF s = <<>> THEN s
  ELSE IF Head(s) = " " THEN TrimLeft(Tail(s)) ELSE s
RECURSIVE TrimRight(_)
TrimRight(s) ==
  IF s = <<>> THEN s
  ELSE IF s[Len(s)] = " " THEN TrimRight(SubSeq(s, 1, Len(s) - 1)) ELSE s
TrimSpace(s) == TrimRight(TrimLeft(s))

(***************************************************************************)
(* What goes wrong with the cluster during one apply:                      *)
(*   "none"    every call is answered,                                     *)
(*   "get"     the Get call is answered with a server error,               *)
(*   "write"   the Create / Update call is answered with a server error,   *)
(*   "dynamic" no dynamic client can be built.                             *)
(***************************************************************************)
Faults == {"none", "get", "write", "dynamic"}

\* one invocation of a primitive of ResourceApplyOptions
Call(op, arg) == [op |-> op, arg |-> arg]

(***************************************************************************)
(* The dynamic client: dynamic.Resource(gvr).Namespace(ns).Get/Create/     *)
(* Update.  Each returns [resource, err, store, ops]; ops lists the calls  *)
(* made to the API server.                                                 *)
(***************************************************************************)
DynamicGet(st, ns, name, fault) ==
  IF fault = "get"
    THEN [resource |-> Nil, err |-> StoreErr, store |-> st, ops |-> <<"Get">>]
  ELSE IF <<ns, name>> \notin Keys \/ st[<<ns, name>>] = Absent
    THEN [resource |-> Nil, err |-> NotFoundErr, store |-> st, ops |-> <<"Get">>]
  ELSE [resource |-> st[<<ns, name>>], err |-> NoErr, store |-> st,
        ops |-> <<"Get">>]

DynamicCreate(st, ns, obj, fault) ==
  IF fault = "write"
    THEN [resource |-> Nil, err |-> StoreErr, store |-> st, ops |-> <<"Create">>]
  ELSE IF <<ns, obj.name>> \notin Keys
    THEN [resource |-> Nil, err |-> InvalidErr, store |-> st, ops |-> <<"Create">>]
  ELSE IF st[<<ns, obj.name>>] # Absent
    THEN [resource |-> Nil, err |-> AlreadyExistsErr, store |-> st,
          ops |-> <<"Create">>]
  ELSE [resource |-> obj, err |-> NoErr, ops |-> <<"Create">>,
        store |-> [st EXCEPT ![<<ns, obj.name>>] = obj]]

DynamicUpdate(st, ns, obj, fault) ==
  IF fault = "write"
    THEN [resource |-> Nil, err |-> StoreErr, store |-> st, ops |-> <<"Update">>]
  ELSE IF <<ns, obj.name>> \notin Keys
    THEN [resource |-> Nil, err |-> InvalidErr, store |-> st, ops |-> <<"Update">>]
  ELSE IF st[<<ns, obj.name>>] = Absent
    THEN [resource |-> Nil, err |-> NotFoundErr, store |-> st,
          ops |-> <<"Update">>]
  ELSE [resource |-> obj, err |-> NoErr, ops |-> <<"Update">>,
        store |-> [st EXCEPT ![<<ns, obj.name>>] = obj]]

(***************************************************************************)
(* The three primitives of unstructured.go                                 *)
(***************************************************************************)
NewResourceCreator(namespace, obj, st, fault) ==
  IF obj = Nil
    THEN [resource |-> Nil, store |-> st, ops |-> <<>>,
          err |-> Errorf(<<"nil resource instance: failed to create resource">>)]
  ELSE IF fault = "dynamic"
    THEN [resource |-> Nil, store |-> st, ops |-> <<>>,
          err |-> Wrap(DynamicErr, <<"failed to create resource">>)]
  ELSE DynamicCreate(st, namespace, obj, fault)

\* a slip: the name is not looked at before the server is asked
NewResourceGetterNoNameCheck(namespace, name, st, fault) ==
  IF fault = "dynamic"
    THEN [resource |-> Nil, store |-> st, ops |-> <<>>,
          err |-> Wrap(DynamicErr, <<"failed to get resource", name>>)]
  ELSE DynamicGet(st, namespace, name, fault)

NewResourceGetter(namespace, name, st, fault) ==
  IF Len(TrimSpace(name)) = 0
    THEN [resource |-> Nil, store |-> st, ops |-> <<>>,
          err |-> Errorf(<<"missing resource name: failed to get resource">>)]
  ELSE IF fault = "dynamic"
    THEN [resource |-> Nil, store |-> st, ops |-> <<>>,
          err |-> Wrap(DynamicErr, <<"failed to get resource", name>>)]
  ELSE DynamicGet(st, namespace, name, fault)

NewResourceUpdater(namespace, obj, st, fault) ==
  IF obj = Nil
    THEN [resource |-> Nil, store |-> st, ops |-> <<>>,
          err |-> Errorf(<<"nil resource instance: failed to update resource">>)]
  ELSE IF fault = "dynamic"
    THEN [resource |-> Nil, store |-> st, ops |-> <<>>,
          err |-> Wrap(DynamicErr, <<"failed to update resource", obj.name>>)]
  ELSE DynamicUpdate(st, namespace, obj, fault)

\* ResourceApplyOptions: which of the three primitives are set (non-nil)
ResourceApplyOptions ==
  [Getter : BOOLEAN, Creator : BOOLEAN, Updater : BOOLEAN]

\* what options.Getter answered within an apply, or that it was not invoked
NotCalled == [called |-> FALSE]
Got(g) == [called |-> TRUE, resource |-> g.resource, err |-> g.err]

(***************************************************************************)
(* newResourceApplier(options)(obj): the result of one apply against the   *)
(* store st, as [resource, err, store, calls, got, storeOps]; calls     *)
(* lists the primitives of options that were invoked, in order, storeOps   *)
(* the calls that reached the API server.                                  *)
(***************************************************************************)
\* a slip: the check of the updater is left out
applierArgErrorNoUpdaterCheck(opts, obj) ==
  IF ~opts.Getter
    THEN Errorf(<<"nil resource getter instance: failed to apply resource">>)
  ELSE IF ~opts.Creator
    THEN Errorf(<<"nil resource creator instance: failed to apply resource">>)
  ELSE IF obj = Nil
    THEN Errorf(<<"nil resource instance: failed to apply resource">>)
  ELSE NoErr

\* the argument checks the closure starts with: the error it returns before
\* any primitive is invoked, or NoErr when all four checks pass
applierArgError(opts, obj) ==
  IF ~opts.Getter
    THEN Errorf(<<"nil resource getter instance: failed to apply resource">>)
  ELSE IF ~opts.Creator
    THEN Errorf(<<"nil resource creator instance: failed to apply resource">>)
  ELSE IF ~opts.Updater
    THEN Errorf(<<"nil resource updater instance: failed to apply resource">>)
  ELSE IF obj = Nil
    THEN Errorf(<<"nil resource instance: failed to apply resource">>)
  ELSE NoErr

\* a slip: the create branch does not return and runs into the update call
applyNotFoundAlsoUpdates(namespace, obj, st, fault, got) ==
  LET made == NewResourceCreator(namespace, obj, st, fault)
      upd == NewResourceUpdater(namespace, obj, made.store, fault)
  IN [resource |-> upd.resource, err |-> upd.err,
      store |-> upd.store, got |-> Got(got),
      storeOps |-> got.ops \o made.ops \o upd.ops,
      calls |-> <<Call("get", obj.name), Call("create", obj),
                  Call("update", obj)>>]

\* a slip: a create that fails is tried once more
applyNotFoundRetriesCreate(namespace, obj, st, fault, got) ==
  LET made == NewResourceCreator(namespace, obj, st, fault)
      again == IF made.err = NoErr THEN made
               ELSE NewResourceCreator(namespace, obj, made.store, "none")
  IN [resource |-> again.resource, err |-> again.err,
      store |-> again.store, got |-> Got(got),
      storeOps |-> IF made.err = NoErr THEN got.ops \o made.ops
                   ELSE got.ops \o made.ops \o again.ops,
      calls |-> IF made.err = NoErr
                  THEN <<Call("get", obj.name), Call("create", obj)>>
                  ELSE <<Call("get", obj.name), Call("create", obj),
                         Call("create", obj)>>]

\* the branch taken when IsNotFound(err): create if not found
applyNotFound(namespace, obj, st, fault, got) ==
  LET made == NewResourceCreator(namespace, obj, st, fault)
  IN [resource |-> made.resource, err |-> made.err,
      store |-> made.store, got |-> Got(got),
      storeOps |-> got.ops \o made.ops,
      calls |-> <<Call("get", obj.name), Call("create", obj)>>]

\* a slip: the else branch writes the object whatever get answered
applyElseWrites(namespace, obj, st, fault, got) ==
  LET made == IF got.err = NoErr
                THEN NewResourceCreator(namespace, obj, st, fault)
                ELSE NewResourceUpdater(namespace, obj, st, fault)
  IN [resource |-> made.resource, err |-> made.err,
      store |-> made.store, got |-> Got(got),
      storeOps |-> got.ops \o made.ops,
      calls |-> <<Call("get", obj.name),
                  Call(IF got.err = NoErr THEN "create" ELSE "update", obj)>>]

\* the else branch: it returns for every other outcome of get, a nil error
\* included (Wrapf of a nil error is nil), so the call of options.Updater
\* that follows the if statement is never reached
applyElse(namespace, obj, st, fault, got) ==
  [resource |-> got.resource,
   err |-> Wrap(got.err, <<"failed to apply resource", obj.name>>),
   store |-> st, got |-> Got(got), storeOps |-> got.ops,
   calls |-> <<Call("get", obj.name)>>]

\* newResourceApplier(options) itself: it returns the closure and has no
\* error result, whatever the options hold
newResourceApplierBuilt(opts) == [done |-> TRUE, err |-> NoErr, options |-> opts]

\* a slip: a nil object is passed over; the closure returns without an error
newResourceApplierIgnoresNil(opts, namespace, obj, st, fault) ==
  IF obj = Nil /\ opts.Getter /\ opts.Creator /\ opts.Updater
    THEN [resource |-> Nil, err |-> NoErr,
          store |-> st, got |-> NotCalled, calls |-> <<>>,
          storeOps |-> <<>>]
  ELSE IF applierArgError(opts, obj) # NoErr
    THEN [resource |-> Nil, err |-> applierArgError(opts, obj),
          store |-> st, got |-> NotCalled, calls |-> <<>>,
          storeOps |-> <<>>]
  ELSE
    LET got == NewResourceGetter(namespace, obj.name, st, fault)
    IN IF IsNotFound(got.err)
         THEN applyNotFound(namespace, obj, st, fault, got)
         ELSE applyElse(namespace, obj, st, fault, got)

newResourceApplier(opts, namespace, obj, st, fault) ==
  IF applierArgError(opts, obj) # NoErr
    THEN [resource |-> Nil, err |-> applierArgError(opts, obj),
          store |-> st, got |-> NotCalled, calls |-> <<>>,
          storeOps |-> <<>>]
  ELSE
    LET got == NewResourceGetter(namespace, obj.name, st, fault)
    IN IF IsNotFound(got.err)
         THEN applyNotFound(namespace, obj, st, fault, got)
         ELSE applyElse(namespace, obj, st, fault, got)

\* NewResourceApplier(gvr, namespace): all three primitives are set
AllOptions == [Getter |-> TRUE, Creator |-> TRUE, Updater |-> TRUE]
NewResourceApplier(namespace, obj, st, fault) ==
  newResourceApplier(AllOptions, namespace, obj, st, fault)

(***************************************************************************)
(* A client of the package that builds one applier and calls it.           *)
(***************************************************************************)
\* the objects a client hands to the applier
ApplyObjects ==
  {Unstruct(NameA, "default", b, {}, {}) : b \in Contents}
    \cup {Unstruct(n, "default", 1, {}, {}) : n \in {NameB} \cup BlankNames}
    \cup {Nil}

\* the objects the store can hold under a key
StoredAt(k) == {Unstruct(k[2], "default", b, {}, {}) : b \in Contents}

\* the option sets a client builds an applier from
ClientOptions ==
  {o \in ResourceApplyOptions :
     Cardinality({f \in {"Getter", "Creator", "Updater"} : ~o[f]}) <= 1}

NoApply == [done |-> FALSE]
NoRun == [done |-> FALSE]
NoConfig == [kind |-> "unused"]
NotBuilt == [done |-> FALSE]
NoPipe == [done |-> FALSE]
\* no catalog function called yet, no concurrent apply started, no Install
\* under way
NoCatalog == [done |-> FALSE]
NoProcs == <<>>
NoInst == [pc |-> "idle"]

InitApply ==
  /\ options = AllOptions
  /\ built = NotBuilt
  /\ pipe = NoPipe
  /\ catalog = NoCatalog
  /\ procs = NoProcs
  /\ inst = NoInst
  /\ applierNs \in Namespaces
  /\ store \in {st \in [Keys -> {Absent} \cup UNION {StoredAt(k) : k \in Keys}] :
                  \A k \in Keys :
                     st[k] = Absent \/ (k[1] = applierNs /\ st[k] \in StoredAt(k))}
  /\ lastApply = NoApply
  /\ prevApply = NoApply
  /\ config = NoConfig
  /\ errors = <<>>
  /\ runs = 0
  /\ lastRun = NoRun

\* newResourceApplier(opts): the client builds its applier
Build(opts) ==
  /\ ~built.done
  /\ built' = newResourceApplierBuilt(opts)
  /\ options' = built'.options
  /\ UNCHANGED <<store, applierNs, lastApply, prevApply,
                 config, errors, runs, lastRun, pipe, catalog, procs, inst>>

\* apply(obj): one call of the closure newResourceApplier(options) returned
Apply(obj, fault) ==
  LET r == newResourceApplier(options, applierNs, obj, store, fault)
  IN /\ built.done
     /\ store' = r.store
     /\ lastApply' = [done |-> TRUE, obj |-> obj, fault |-> fault,
                      before |-> store, after |-> r.store,
                      resource |-> r.resource, err |-> r.err,
                      calls |-> r.calls, got |-> r.got,
                      storeOps |-> r.storeOps]
     /\ prevApply' = lastApply
     /\ UNCHANGED <<options, applierNs, built, config, errors, runs,
                    lastRun, pipe, catalog, procs, inst>>

NextApply ==
  \/ \E opts \in ClientOptions : Build(opts)
  \/ \E obj \in ApplyObjects, fault \in Faults : Apply(obj, fault)

SpecApply == InitApply /\ [][NextApply]_vars

(***************************************************************************)
(* The mutation pipeline                                                   *)
(***************************************************************************)
\* BuildUnstructured(raw): decode a document into an unstructured instance
DecodeErr == [kind |-> "DecodeError"]
BuildUnstructured(raw) ==
  IF ~raw.valid
    THEN [obj |-> Nil,
          err |-> Wrap(DecodeErr, <<"failed to build unstructured instance">>)]
  ELSE [obj |-> Unstruct(raw.name, raw.ns, raw.body, raw.labels, raw.annotations),
        err |-> NoErr]

\* merge of a fixed set of key/value pairs into a map kept as a set of
\* pairs: keys of new replace those of old, the other pairs of old stay
MergePairs(old, new) ==
  {p \in old : \A q \in new : q[1] # p[1]} \cup new

\* the install-driven updaters: each takes the install-spec entry and the
\* given instance
updateUnstructuredNamespace(install, given) ==
  IF install.namespace = "" THEN given
  ELSE [given EXCEPT !.ns = install.namespace]
updateUnstructuredLabels(install, given) ==
  [given EXCEPT !.labels = MergePairs(given.labels, install.labels)]
updateUnstructuredAnnotations(install, given) ==
  [given EXCEPT !.annotations =
     MergePairs(given.annotations, install.annotations)]

\* one UnstructuredMiddleware: an install-driven updater bound to its entry,
\* or the updater UnstructuredUpdater returned for a list of updaters
Middleware(fn, install) == [fn |-> fn, install |-> install]
Composed(updaters) == [fn |-> "UnstructuredUpdater", updaters |-> updaters]
RECURSIVE UnstructuredUpdater(_, _)
RunMiddleware(u, given) ==
  CASE u.fn = "UnstructuredUpdater" ->
         UnstructuredUpdater(u.updaters, given)
    [] u.fn = "updateUnstructuredNamespace" ->
         updateUnstructuredNamespace(u.install, given)
    [] u.fn = "updateUnstructuredLabels" ->
         updateUnstructuredLabels(u.install, given)
    [] u.fn = "updateUnstructuredAnnotations" ->
         updateUnstructuredAnnotations(u.install, given)

\* WithInstallUnstructuredUpdaterList(install, updaters): bind every updater
\* to the entry, keeping the order
WithInstallUnstructuredUpdaterList(install, updaters) ==
  [i \in 1..Len(updaters) |-> Middleware(updaters[i], install)]

\* a slip: every updater is handed the instance the pipeline was given, and
\* what the last one returns is the result
UnstructuredUpdaterFromGiven(updaters, given) ==
  IF updaters = <<>> THEN given
  ELSE RunMiddleware(updaters[Len(updaters)], given)

\* a slip: the loop returns after its first updater
UnstructuredUpdaterFirstOnly(updaters, given) ==
  IF updaters = <<>> THEN given
  ELSE RunMiddleware(Head(updaters), given)

\* UnstructuredUpdater(updaters)(given): run the updaters in list order,
\* each on what the previous one returned
UnstructuredUpdater(updaters, given) ==
  IF updaters = <<>> THEN given
  ELSE UnstructuredUpdater(Tail(updaters), RunMiddleware(Head(updaters), given))

(***************************************************************************)
(* Apply invocations that run at the same time, for one name, against one  *)
(* store.  Every invocation is at its call of options.Getter ("get"), at   *)
(* the statement that follows it ("write"), or has returned ("done"); the  *)
(* calls of the invocations interleave in any order.                       *)
(***************************************************************************)
Invocations == 1..MaxProcs
\* an invocation that is about to call get for obj
Invoked(obj) == [pc |-> "get", obj |-> obj]

InitConcurrent ==
  /\ applierNs \in Namespaces
  /\ \E name \in StoreNames :
       /\ procs \in [Invocations ->
                       {Invoked(Unstruct(name, applierNs, b, {}, {})) : b \in Contents}]
       /\ store \in {[k \in Keys |->
                        IF k \in P THEN Unstruct(k[2], k[1], 2, {}, {}) ELSE Absent] :
                       P \in {{}, {<<applierNs, name>>}}}
  /\ options = AllOptions
  /\ built = newResourceApplierBuilt(AllOptions)
  /\ lastApply = NoApply
  /\ prevApply = NoApply
  /\ config = NoConfig
  /\ errors = <<>>
  /\ runs = 0
  /\ lastRun = NoRun
  /\ pipe = NoPipe
  /\ catalog = NoCatalog
  /\ inst = NoInst

\* invocation i calls options.Getter
ProcGet(i) ==
  /\ procs[i].pc = "get"
  /\ applierArgError(options, procs[i].obj) = NoErr
  /\ procs' = [procs EXCEPT ![i] =
       [pc |-> "write", obj |-> @.obj, before |-> store,
        got |-> NewResourceGetter(applierNs, @.obj.name, store, "none")]]
  /\ UNCHANGED <<store, options, applierNs, built, lastApply, prevApply,
                 config, errors, runs, lastRun, pipe, catalog, inst>>

\* a slip: a create refused because the object exists is followed by an
\* update
ProcWriteUpdatesExisting(i) ==
  /\ procs[i].pc = "write"
  /\ LET p == procs[i]
         made == IF IsNotFound(p.got.err)
                   THEN applyNotFound(applierNs, p.obj, store, "none", p.got)
                   ELSE applyElse(applierNs, p.obj, store, "none", p.got)
         r == IF made.err = AlreadyExistsErr
                THEN NewResourceUpdater(applierNs, p.obj, store, "none")
                ELSE made
     IN /\ store' = r.store
        /\ procs' = [procs EXCEPT ![i] =
             [pc |-> "done", obj |-> p.obj, before |-> p.before, got |-> p.got,
              resource |-> r.resource, err |-> r.err, calls |-> made.calls]]
  /\ UNCHANGED <<options, applierNs, built, lastApply, prevApply,
                 config, errors, runs, lastRun, pipe, catalog, inst>>

\* invocation i goes on after its get: create if not found, return otherwise
ProcWrite(i) ==
  /\ procs[i].pc = "write"
  /\ LET p == procs[i]
         r == IF IsNotFound(p.got.err)
                THEN applyNotFound(applierNs, p.obj, store, "none", p.got)
                ELSE applyElse(applierNs, p.obj, store, "none", p.got)
     IN /\ store' = r.store
        /\ procs' = [procs EXCEPT ![i] =
             [pc |-> "done", obj |-> p.obj, before |-> p.before, got |-> p.got,
              resource |-> r.resource, err |-> r.err, calls |-> r.calls]]
  /\ UNCHANGED <<options, applierNs, built, lastApply, prevApply,
                 config, errors, runs, lastRun, pipe, catalog, inst>>

NextConcurrent ==
  \E i \in Invocations : ProcGet(i) \/ ProcWrite(i)

SpecConcurrent == InitConcurrent /\ [][NextConcurrent]_vars

(***************************************************************************)
(* A client of the package that composes updaters and runs the result.     *)
(***************************************************************************)
\* the override values the client binds its updaters to
StageEntry(namespace, labels, annotations) ==
  [version |-> "v2", namespace |-> namespace,
   labels |-> labels, annotations |-> annotations]
StageEntries ==
  {StageEntry("openebs", {<<"app", "openebs">>}, {<<"owner", "decide">>}),
   StageEntry("", {<<"tier", "storage">>}, {}),
   StageEntry("kube-system", {<<"app", "jiva">>, <<"tier", "gold">>},
              {<<"owner", "ops">>})}
StageFns ==
  {"updateUnstructuredNamespace", "updateUnstructuredLabels",
   "updateUnstructuredAnnotations"}
StagePool == {Middleware(fn, e) : fn \in StageFns, e \in StageEntries}

\* the instances the client hands to the composed updater
PipeObjects ==
  {Unstruct(NameA, "default", 1, {<<"app", "cstor">>}, {}),
   Unstruct(NameB, "openebs", 2, {<<"tier", "bronze">>, <<"team", "a">>},
            {<<"owner", "dev">>})}

\* all sequences over S of length at most n
RECURSIVE SeqsUpTo(_, _)
SeqsUpTo(S, n) ==
  IF n = 0 THEN {<<>>}
  ELSE SeqsUpTo(S, n - 1)
         \cup {Append(q, x) : q \in {r \in SeqsUpTo(S, n - 1) : Len(r) = n - 1},
                              x \in S}

\* the lists the client composes: plain updaters, or two composed updaters
PipeLists ==
  SeqsUpTo(StagePool, MaxStages)
    \cup {<<Composed(A), Composed(B)>> :
            A \in SeqsUpTo(StagePool, MaxStages - 1),
            B \in SeqsUpTo(StagePool, MaxStages - 1)}

InitPipeline ==
  /\ pipe = NoPipe
  /\ catalog = NoCatalog
  /\ procs = NoProcs
  /\ inst = NoInst
  /\ store = [k \in Keys |-> Absent]
  /\ options = AllOptions
  /\ applierNs = "default"
  /\ built = NotBuilt
  /\ lastApply = NoApply
  /\ prevApply = NoApply
  /\ config = NoConfig
  /\ errors = <<>>
  /\ runs = 0
  /\ lastRun = NoRun

\* UnstructuredUpdater(updaters)(given): compose, then run on an instance
RunPipeline(updaters, given) ==
  /\ ~pipe.done
  /\ pipe' = [done |-> TRUE, updaters |-> updaters, given |-> given,
              updated |-> UnstructuredUpdater(updaters, given)]
  /\ UNCHANGED <<store, options, applierNs, built, lastApply, prevApply,
                 config, errors, runs, lastRun, catalog, procs, inst>>

NextPipeline ==
  \E updaters \in PipeLists, given \in PipeObjects : RunPipeline(updaters, given)

SpecPipeline == InitPipeline /\ [][NextPipeline]_vars

(***************************************************************************)
(* The installer                                                           *)
(***************************************************************************)
\* installErrors.addError
addError(errs, err) == Append(errs, err)

\* installErrors.addErrors: addError for each error of the list, in order
RECURSIVE addErrors(_, _)
addErrors(errs, more) ==
  IF more = <<>> THEN errs
  ELSE addErrors(addError(errs, Head(more)), Tail(more))

\* the updaters SimpleInstaller() sets
\* a slip: the annotation updater is left out of the list
unstructuredUpdatersNoAnnotations ==
  <<"updateUnstructuredNamespace", "updateUnstructuredLabels">>

unstructuredUpdaters ==
  <<"updateUnstructuredNamespace", "updateUnstructuredLabels",
    "updateUnstructuredAnnotations">>

\* documents of the catalog
Doc(valid, name, body) ==
  [valid |-> valid, name |-> name, ns |-> "default", body |-> body,
   labels |-> {<<"app", "cstor">>}, annotations |-> {}]
DocA == Doc(TRUE, NameA, 1)
DocB == Doc(TRUE, NameB, 1)
DocBad == Doc(FALSE, <<>>, 0)
\* schema.GroupVersionResource, and its zero value
GroupVersionResource(group, version, resource) ==
  [Group |-> group, Version |-> version, Resource |-> resource]
EmptyGVR == GroupVersionResource("", "", "")
\* &Artifact{Doc: doc}: the resource type is left at its zero value
Artifact(doc) == [Doc |-> doc, GroupVersionResource |-> EmptyGVR]

(***************************************************************************)
(* The catalog of version 0.7.0 (registrar_0.7.0.go).                      *)
(***************************************************************************)
\* a document of the catalog, by what it declares: its apiVersion (the
\* parts separated by "/"), its kind and its metadata name
CatalogDoc(apiVersion, kind, name) ==
  [apiVersion |-> apiVersion, kind |-> kind, name |-> name]
\* a CASTemplate document: also the run tasks it lists under spec.run.tasks,
\* in order, and the one it names as spec.output
CASTemplateDoc(name, tasks, output) ==
  [apiVersion |-> <<"openebs.io", "v1alpha1">>, kind |-> "CASTemplate",
   name |-> name, tasks |-> tasks, output |-> output]

cstorVolumeCreateDefault070 ==
  Artifact(CASTemplateDoc(
    "cstor-volume-create-default-0.7.0",
    <<"cstor-volume-create-listcstorpoolcr-default-0.7.0",
      "cstor-volume-create-puttargetservice-default-0.7.0",
      "cstor-volume-create-putcstorvolumecr-default-0.7.0",
      "cstor-volume-create-puttargetdeployment-default-0.7.0",
      "cstor-volume-create-putcstorvolumereplicacr-default-0.7.0">>,
    "cstor-volume-create-output-default-0.7.0"))
cstorVolumeDeleteDefault070 ==
  Artifact(CASTemplateDoc(
    "cstor-volume-delete-default-0.7.0",
    <<"cstor-volume-delete-listcstorvolumecr-default-0.7.0",
      "cstor-volume-delete-listtargetservice-default-0.7.0",
      "cstor-volume-delete-listtargetdeployment-default-0.7.0",
      "cstor-volume-delete-listcstorvolumereplicacr-default-0.7.0",
      "cstor-volume-delete-deletetargetservice-default-0.7.0",
      "cstor-volume-delete-deletetargetdeployment-default-0.7.0",
      "cstor-volume-delete-deletecstorvolumereplicacr-default-0.7.0",
      "cstor-volume-delete-deletecstorvolumecr-default-0.7.0">>,
    "cstor-volume-delete-output-default-0.7.0"))
cstorVolumeReadDefault070 ==
  Artifact(CASTemplateDoc(
    "cstor-volume-read-default-0.7.0",
    <<"cstor-volume-read-listtargetservice-default-0.7.0",
      "cstor-volume-read-listcstorvolumereplicacr-default-0.7.0",
      "cstor-volume-read-listtargetpod-default-0.7.0">>,
    "cstor-volume-read-output-default-0.7.0"))
cstorVolumeListDefault070 ==
  Artifact(CASTemplateDoc(
    "cstor-volume-list-default-0.7.0",
    <<"cstor-volume-list-listtargetservice-default-0.7.0",
      "cstor-volume-list-listtargetpod-default-0.7.0",
      "cstor-volume-list-listcstorvolumereplicacr-default-0.7.0">>,
    "cstor-volume-list-output-default-0.7.0"))
cstorVolumeCreateListCstorPoolCRDefault070 ==
  Artifact(CatalogDoc(<<"v1">>, "ConfigMap",
                      "cstor-volume-create-listcstorpoolcr-default-0.7.0"))
cstorVolumeCreatePutTargetServiceDefault070 ==
  Artifact(CatalogDoc(<<"v1">>, "ConfigMap",
                      "cstor-volume-create-puttargetservice-default-0.7.0"))
cstorVolumeCreatePutCstorVolumeCRDefault070 ==
  Artifact(CatalogDoc(<<"v1">>, "ConfigMap",
                      "cstor-volume-create-putcstorvolumecr-default-0.7.0"))
cstorVolumeCreatePutTargetDeploymentDefault070 ==
  Artifact(CatalogDoc(<<"v1">>, "ConfigMap",
                      "cstor-volume-create-puttargetdeployment-default-0.7.0"))
cstorVolumeCreatePutCstorVolumeReplicaCRDefault070 ==
  Artifact(CatalogDoc(<<"v1">>, "ConfigMap",
                      "cstor-volume-create-putcstorvolumereplicacr-default-0.7.0"))
cstorVolumeCreateOutputDefault070 ==
  Artifact(CatalogDoc(<<"v1">>, "ConfigMap",
                      "cstor-volume-create-output-default-0.7.0"))
cstorVolumeListListTargetServiceDefault070 ==
  Artifact(CatalogDoc(<<"v1">>, "ConfigMap",
                      "cstor-volume-list-listtargetservice-default-0.7.0"))
cstorVolumeListListTargetPodDefault070 ==
  Artifact(CatalogDoc(<<"v1">>, "ConfigMap",
                      "cstor-volume-list-listtargetpod-default-0.7.0"))
cstorVolumeListListCstorVolumeReplicaCRDefault070 ==
  Artifact(CatalogDoc(<<"v1">>, "ConfigMap",
                      "cstor-volume-list-listcstorvolumereplicacr-default-0.7.0"))
cstorVolumeListOutputDefault070 ==
  Artifact(CatalogDoc(<<"v1">>, "ConfigMap",
                      "cstor-volume-list-output-default-0.7.0"))
cstorVolumeReadListTargetServiceDefault070 ==
  Artifact(CatalogDoc(<<"v1">>, "ConfigMap",
                      "cstor-volume-read-listtargetservice-default-0.7.0"))
cstorVolumeReadListCstorVolumeReplicaCRDefault070 ==
  Artifact(CatalogDoc(<<"v1">>, "ConfigMap",
                      "cstor-volume-read-listcstorvolumereplicacr-default-0.7.0"))
cstorVolumeReadListTargetPodDefault070 ==
  Artifact(CatalogDoc(<<"v1">>, "ConfigMap",
                      "cstor-volume-read-listtargetpod-default-0.7.0"))
cstorVolumeReadOutputDefault070 ==
  Artifact(CatalogDoc(<<"v1">>, "ConfigMap",
                      "cstor-volume-read-output-default-0.7.0"))
cstorVolumeDeleteListCstorVolumeCRDefault070 ==
  Artifact(CatalogDoc(<<"v1">>, "ConfigMap",
                      "cstor-volume-delete-listcstorvolumecr-default-0.7.0"))
cstorVolumeDeleteListTargetServiceDefault070 ==
  Artifact(CatalogDoc(<<"v1">>, "ConfigMap",
                      "cstor-volume-delete-listtargetservice-default-0.7.0"))
cstorVolumeDeleteListTargetDeploymentDefault070 ==
  Artifact(CatalogDoc(<<"v1">>, "ConfigMap",
                      "cstor-volume-delete-listtargetdeployment-default-0.7.0"))
cstorVolumeDeleteListCstorVolumeReplicaCRDefault070 ==
  Artifact(CatalogDoc(<<"v1">>, "ConfigMap",
                      "cstor-volume-delete-listcstorvolumereplicacr-default-0.7.0"))
cstorVolumeDeleteDeleteTargetServiceDefault070 ==
  Artifact(CatalogDoc(<<"v1">>, "ConfigMap",
                      "cstor-volume-delete-deletetargetservice-default-0.7.0"))
cstorVolumeDeleteDeleteTargetDeploymentDefault070 ==
  Artifact(CatalogDoc(<<"v1">>, "ConfigMap",
                      "cstor-volume-delete-deletetargetdeployment-default-0.7.0"))
cstorVolumeDeleteDeleteCstorVolumeReplicaCRDefault070 ==
  Artifact(CatalogDoc(<<"v1">>, "ConfigMap",
                      "cstor-volume-delete-deletecstorvolumereplicacr-default-0.7.0"))
cstorVolumeDeleteDeleteCstorVolumeCRDefault070 ==
  Artifact(CatalogDoc(<<"v1">>, "ConfigMap",
                      "cstor-volume-delete-deletecstorvolumecr-default-0.7.0"))
cstorVolumeDeleteOutputDefault070 ==
  Artifact(CatalogDoc(<<"v1">>, "ConfigMap",
                      "cstor-volume-delete-output-default-0.7.0"))

\* WithGVRCasTemplateUpdaterFor070()(given): the artifact with the
\* CASTemplate group, version and resource
WithGVRCasTemplateUpdaterFor070(given) ==
  [given EXCEPT !.GroupVersionResource =
     GroupVersionResource("openebs.io", "v1alpha1", "castemplates")]

\* WithGVRCasTemplateListUpdaterFor070(given): every artifact of the list,
\* updated, in list order
WithGVRCasTemplateListUpdaterFor070(given) ==
  [i \in 1..Len(given) |-> WithGVRCasTemplateUpdaterFor070(given[i])]

\* WithGVRRunTaskUpdaterFor070()(given): the artifact with the RunTask
\* group, version and resource
WithGVRRunTaskUpdaterFor070(given) ==
  [given EXCEPT !.GroupVersionResource =
     GroupVersionResource("openebs.io", "v1alpha1", "runtasks")]

\* a slip: the list updater appends the artifacts as they were given
WithGVRRunTaskListUpdaterKeepsGiven(given) ==
  given

\* WithGVRRunTaskListUpdaterFor070(given): every artifact of the list,
\* updated, in list order
WithGVRRunTaskListUpdaterFor070(given) ==
  [i \in 1..Len(given) |-> WithGVRRunTaskUpdaterFor070(given[i])]

\* the cstor volume CAS templates of version 0.7.0, as appended
castemplates ==
    <<cstorVolumeCreateDefault070,
      cstorVolumeDeleteDefault070,
      cstorVolumeReadDefault070,
      cstorVolumeListDefault070>>
cstorVolumeCASTemplatesFor070 ==
  WithGVRCasTemplateListUpdaterFor070(castemplates)

\* the cstor volume run tasks of version 0.7.0, as appended
runtasks ==
    <<cstorVolumeCreateListCstorPoolCRDefault070,
      cstorVolumeCreatePutTargetServiceDefault070,
      cstorVolumeCreatePutCstorVolumeCRDefault070,
      cstorVolumeCreatePutTargetDeploymentDefault070,
      cstorVolumeCreatePutCstorVolumeReplicaCRDefault070,
      cstorVolumeCreateOutputDefault070,
      cstorVolumeListListTargetPodDefault070,
      cstorVolumeListListCstorVolumeReplicaCRDefault070,
      cstorVolumeListOutputDefault070,
      cstorVolumeReadListTargetServiceDefault070,
      cstorVolumeReadListCstorVolumeReplicaCRDefault070,
      cstorVolumeReadListTargetPodDefault070,
      cstorVolumeReadOutputDefault070,
      cstorVolumeDeleteListCstorVolumeCRDefault070,
      cstorVolumeDeleteListTargetServiceDefault070,
      cstorVolumeDeleteListTargetDeploymentDefault070,
      cstorVolumeDeleteListCstorVolumeReplicaCRDefault070,
      cstorVolumeDeleteDeleteTargetServiceDefault070,
      cstorVolumeDeleteDeleteTargetDeploymentDefault070,
      cstorVolumeDeleteDeleteCstorVolumeReplicaCRDefault070,
      cstorVolumeDeleteDeleteCstorVolumeCRDefault070,
      cstorVolumeDeleteOutputDefault070>>
cstorVolumeRunTasksFor070 ==
  WithGVRRunTaskListUpdaterFor070(runtasks)

\* the cstor volume artifacts of version 0.7.0: templates, then run tasks
CstorVolumeArtifactsFor070 ==
  [Items |-> cstorVolumeCASTemplatesFor070 \o cstorVolumeRunTasksFor070]

\* artifacts a client may hand to the exported list updaters: as registered,
\* or already carrying a resource type
ArtifactPool ==
  {cstorVolumeCreateDefault070, cstorVolumeCreateOutputDefault070,
   WithGVRRunTaskUpdaterFor070(cstorVolumeReadDefault070),
   WithGVRCasTemplateUpdaterFor070(cstorVolumeListListTargetServiceDefault070)}
ArtifactLists == SeqsUpTo(ArtifactPool, MaxArtifacts)

\* the last call made to the catalog: the function, the artifacts it is
\* given or registers, the list it returns
CatalogCall(fn, given, list) ==
  [done |-> TRUE, fn |-> fn, given |-> given, list |-> list]

InitCatalog ==
  /\ catalog = NoCatalog
  /\ pipe = NoPipe
  /\ procs = NoProcs
  /\ inst = NoInst
  /\ store = [k \in Keys |-> Absent]
  /\ options = AllOptions
  /\ applierNs = "default"
  /\ built = NotBuilt
  /\ lastApply = NoApply
  /\ prevApply = NoApply
  /\ config = NoConfig
  /\ errors = <<>>
  /\ runs = 0
  /\ lastRun = NoRun

CallCASTemplates ==
  /\ catalog' = CatalogCall("cstorVolumeCASTemplatesFor070", castemplates,
                            cstorVolumeCASTemplatesFor070)
  /\ UNCHANGED <<store, options, applierNs, built, lastApply, prevApply,
                 config, errors, runs, lastRun, pipe, procs, inst>>

CallRunTasks ==
  /\ catalog' = CatalogCall("cstorVolumeRunTasksFor070", runtasks,
                            cstorVolumeRunTasksFor070)
  /\ UNCHANGED <<store, options, applierNs, built, lastApply, prevApply,
                 config, errors, runs, lastRun, pipe, procs, inst>>

CallCstorVolumeArtifacts ==
  /\ catalog' = CatalogCall("CstorVolumeArtifactsFor070", castemplates \o runtasks,
                            CstorVolumeArtifactsFor070.Items)
  /\ UNCHANGED <<store, options, applierNs, built, lastApply, prevApply,
                 config, errors, runs, lastRun, pipe, procs, inst>>

UpdateCasTemplateList(given) ==
  /\ catalog' = CatalogCall("WithGVRCasTemplateListUpdaterFor070", given,
                            WithGVRCasTemplateListUpdaterFor070(given))
  /\ UNCHANGED <<store, options, applierNs, built, lastApply, prevApply,
                 config, errors, runs, lastRun, pipe, procs, inst>>

UpdateRunTaskList(given) ==
  /\ catalog' = CatalogCall("WithGVRRunTaskListUpdaterFor070", given,
                            WithGVRRunTaskListUpdaterFor070(given))
  /\ UNCHANGED <<store, options, applierNs, built, lastApply, prevApply,
                 config, errors, runs, lastRun, pipe, procs, inst>>

NextCatalog ==
  \/ CallCASTemplates
  \/ CallRunTasks
  \/ CallCstorVolumeArtifacts
  \/ \E given \in ArtifactLists : UpdateCasTemplateList(given)
  \/ \E given \in ArtifactLists : UpdateRunTaskList(given)

SpecCatalog == InitCatalog /\ [][NextCatalog]_vars

ListErr == [kind |-> "UnknownVersion"]
\* i.artifactLister(version): the artifacts registered for a version, or an
\* error for a version that is not registered
artifactLister(version) ==
  CASE version = "v1" ->
         [list |-> <<Artifact(DocA), Artifact(DocBad), Artifact(DocB)>>,
          err |-> NoErr]
    [] version = "v2" ->
         [list |-> <<Artifact(DocA), Artifact(DocB)>>, err |-> NoErr]
    [] version = "v3" ->
         [list |-> <<Artifact(DocB)>>, err |-> NoErr]
    [] OTHER -> [list |-> <<>>, err |-> ListErr]

\* events of one Install run, in order of occurrence: list and addError of
\* the entry loop, compose (the updaters bound for an instance and the
\* instance they are given) and mutate (what they return), then the calls
\* and the outcome of every apply
Event(op, entry, doc, val) == [op |-> op, entry |-> entry, doc |-> doc, val |-> val]

\* i.transformer(list): decode every document of the list; the decoded
\* instances and the decode errors, each in list order.  docs gives, for
\* every decoded instance, the position of its document in the list.
RECURSIVE transformer(_, _, _)
transformer(list, d, acc) ==
  IF d > Len(list) THEN acc
  ELSE LET b == BuildUnstructured(list[d].Doc)
       IN transformer(list, d + 1,
            IF b.err # NoErr
              THEN [acc EXCEPT !.errs = Append(@, b.err),
                               !.failed = Append(@, d)]
              ELSE [acc EXCEPT !.unstructs = Append(@, b.obj),
                               !.docs = Append(@, d)])
NoneTransformed == [unstructs |-> <<>>, docs |-> <<>>, errs |-> <<>>, failed |-> <<>>]

\* the state Install carries through its loops: i.errors, allUnstructured
\* (origins: the entry and document each instance comes from), the store,
\* and the events so far
RunState(errs, st) ==
  [errors |-> errs, all |-> <<>>, origins |-> <<>>, store |-> st, log |-> <<>>]

\* a slip: a listing failure is skipped without being recorded
installEntryDropsListError(install, e, acc) ==
  LET listed == artifactLister(install.version)
      tr == transformer(listed.list, 1, NoneTransformed)
      n == Len(tr.unstructs)
      installUpdaters ==
        WithInstallUnstructuredUpdaterList(install, unstructuredUpdaters)
      updated == [k \in 1..n |->
                    UnstructuredUpdater(installUpdaters, tr.unstructs[k])]
  IN IF listed.err # NoErr
       THEN [acc EXCEPT !.log = Append(@, Event("list", e, 0, listed.err))]
     ELSE [acc EXCEPT
       !.errors = IF Len(tr.errs) # 0 THEN addErrors(@, tr.errs) ELSE @,
       !.all = @ \o updated,
       !.origins = @ \o [k \in 1..n |-> <<e, tr.docs[k]>>],
       !.log = @ \o <<Event("list", e, 0, NoErr)>>
                 \o [k \in 1..Len(tr.errs) |->
                       Event("addError", e, tr.failed[k], tr.errs[k])]
                 \o [j \in 1..(2 * n) |->
                       IF j % 2 = 1
                         THEN Event("compose", e, tr.docs[(j + 1) \div 2],
                                    [updaters |-> installUpdaters,
                                     given |-> tr.unstructs[(j + 1) \div 2]])
                         ELSE Event("mutate", e, tr.docs[j \div 2],
                                    updated[j \div 2])]]

\* a slip: an entry with a document that fails to decode is skipped whole
installEntrySkipsOnDecodeError(install, e, acc) ==
  LET listed == artifactLister(install.version)
      tr == transformer(listed.list, 1, NoneTransformed)
      n == Len(tr.unstructs)
      installUpdaters ==
        WithInstallUnstructuredUpdaterList(install, unstructuredUpdaters)
      updated == [k \in 1..n |->
                    UnstructuredUpdater(installUpdaters, tr.unstructs[k])]
      listErr == Wrap(listed.err,
                   <<"simple installer failed to list artifacts for version",
                     install.version>>)
  IN IF listed.err # NoErr
       THEN [acc EXCEPT !.errors = addError(@, listErr),
                        !.log = @ \o <<Event("list", e, 0, listed.err),
                                       Event("addError", e, 0, listErr)>>]
     ELSE IF Len(tr.errs) # 0
       THEN [acc EXCEPT
              !.errors = addErrors(@, tr.errs),
              !.log = @ \o <<Event("list", e, 0, NoErr)>>
                        \o [k \in 1..Len(tr.errs) |->
                              Event("addError", e, tr.failed[k], tr.errs[k])]]
     ELSE [acc EXCEPT
       !.all = @ \o updated,
       !.origins = @ \o [k \in 1..n |-> <<e, tr.docs[k]>>],
       !.log = @ \o <<Event("list", e, 0, NoErr)>>
                 \o [j \in 1..(2 * n) |->
                       IF j % 2 = 1
                         THEN Event("compose", e, tr.docs[(j + 1) \div 2],
                                    [updaters |-> installUpdaters,
                                     given |-> tr.unstructs[(j + 1) \div 2]])
                         ELSE Event("mutate", e, tr.docs[j \div 2],
                                    updated[j \div 2])]]

\* a slip: every instance is looked up in the store as soon as it is mutated
installEntryGetsEarly(install, e, acc) ==
  LET listed == artifactLister(install.version)
      tr == transformer(listed.list, 1, NoneTransformed)
      n == Len(tr.unstructs)
      installUpdaters ==
        WithInstallUnstructuredUpdaterList(install, unstructuredUpdaters)
      updated == [k \in 1..n |->
                    UnstructuredUpdater(installUpdaters, tr.unstructs[k])]
      listErr == Wrap(listed.err,
                   <<"simple installer failed to list artifacts for version",
                     install.version>>)
  IN IF listed.err # NoErr
       THEN [acc EXCEPT !.errors = addError(@, listErr),
                        !.log = @ \o <<Event("list", e, 0, listed.err),
                                       Event("addError", e, 0, listErr)>>]
     ELSE [acc EXCEPT
       !.errors = IF Len(tr.errs) # 0 THEN addErrors(@, tr.errs) ELSE @,
       !.all = @ \o updated,
       !.origins = @ \o [k \in 1..n |-> <<e, tr.docs[k]>>],
       !.log = @ \o <<Event("list", e, 0, NoErr)>>
                 \o [k \in 1..Len(tr.errs) |->
                       Event("addError", e, tr.failed[k], tr.errs[k])]
                 \o [j \in 1..(3 * n) |->
                       IF j % 3 = 1
                         THEN Event("compose", e, tr.docs[(j + 2) \div 3],
                                    [updaters |-> installUpdaters,
                                     given |-> tr.unstructs[(j + 2) \div 3]])
                       ELSE IF j % 3 = 2
                         THEN Event("mutate", e, tr.docs[(j + 1) \div 3],
                                    updated[(j + 1) \div 3])
                       ELSE Event("get", e, tr.docs[j \div 3],
                                  updated[j \div 3].ns)]]

\* one iteration of the loop over config.Spec.Install, for entry number e
installEntry(install, e, acc) ==
  LET listed == artifactLister(install.version)
      \* transform list of artifacts to list of unstructured instances
      tr == transformer(listed.list, 1, NoneTransformed)
      n == Len(tr.unstructs)
      \* override the unstructured instances from install set options
      installUpdaters ==
        WithInstallUnstructuredUpdaterList(install, unstructuredUpdaters)
      updated == [k \in 1..n |->
                    UnstructuredUpdater(installUpdaters, tr.unstructs[k])]
      listErr == Wrap(listed.err,
                   <<"simple installer failed to list artifacts for version",
                     install.version>>)
  IN IF listed.err # NoErr
       THEN \* addError, continue
            [acc EXCEPT !.errors = addError(@, listErr),
                        !.log = @ \o <<Event("list", e, 0, listed.err),
                                       Event("addError", e, 0, listErr)>>]
     ELSE [acc EXCEPT
       !.errors = IF Len(tr.errs) # 0 THEN addErrors(@, tr.errs) ELSE @,
       !.all = @ \o updated,
       !.origins = @ \o [k \in 1..n |-> <<e, tr.docs[k]>>],
       !.log = @ \o <<Event("list", e, 0, NoErr)>>
                 \o [k \in 1..Len(tr.errs) |->
                       Event("addError", e, tr.failed[k], tr.errs[k])]
                 \o [j \in 1..(2 * n) |->
                       IF j % 2 = 1
                         THEN Event("compose", e, tr.docs[(j + 1) \div 2],
                                    [updaters |-> installUpdaters,
                                     given |-> tr.unstructs[(j + 1) \div 2]])
                         ELSE Event("mutate", e, tr.docs[j \div 2],
                                    updated[j \div 2])]]

\* the loop over config.Spec.Install
RECURSIVE installEntries(_, _, _)
installEntries(entries, e, acc) ==
  IF e > Len(entries) THEN acc
  ELSE installEntries(entries, e + 1, installEntry(entries[e], e, acc))

\* a slip: when an apply fails, what the run stored so far is taken back
applyUnstructRollsBack(k, acc, fault) ==
  LET unstruct == acc.all[k]
      r == NewResourceApplier(unstruct.ns, unstruct, acc.store, fault)
      earlier == {<<acc.all[j].ns, acc.all[j].name>> : j \in 1..(k - 1)}
      kept == IF r.err = NoErr THEN r.store
              ELSE [key \in Keys |->
                      IF key \in earlier THEN Absent ELSE r.store[key]]
  IN [acc EXCEPT
       !.store = kept,
       !.errors = addError(@, r.err),
       !.log = @ \o [c \in 1..Len(r.calls) |->
                       Event(r.calls[c].op, acc.origins[k][1],
                             acc.origins[k][2], unstruct.ns)]
                 \o <<Event("apply", acc.origins[k][1], acc.origins[k][2],
                            [obj |-> unstruct, err |-> r.err, after |-> kept])>>]

\* a slip: every applier is built for the namespace "default", whatever
\* namespace the instance carries
applyUnstructInDefaultNamespace(k, acc, fault) ==
  LET unstruct == acc.all[k]
      r == NewResourceApplier("default", unstruct, acc.store, fault)
  IN [acc EXCEPT
       !.store = r.store,
       !.errors = addError(@, r.err),
       !.log = @ \o [c \in 1..Len(r.calls) |->
                       Event(r.calls[c].op, acc.origins[k][1],
                             acc.origins[k][2], "default")]
                 \o <<Event("apply", acc.origins[k][1], acc.origins[k][2],
                            [obj |-> unstruct, err |-> r.err,
                             after |-> r.store])>>]

\* one iteration of the loop over allUnstructured, for instance number k:
\* build the applier for the instance's namespace, apply, add the error
\* apply returned to the list (whatever it is)
applyUnstruct(k, acc, fault) ==
  LET unstruct == acc.all[k]
      r == NewResourceApplier(unstruct.ns, unstruct, acc.store, fault)
  IN [acc EXCEPT
       !.store = r.store,
       !.errors = addError(@, r.err),
       !.log = @ \o [c \in 1..Len(r.calls) |->
                       Event(r.calls[c].op, acc.origins[k][1],
                             acc.origins[k][2], unstruct.ns)]
                 \o <<Event("apply", acc.origins[k][1], acc.origins[k][2],
                            [obj |-> unstruct, err |-> r.err,
                             after |-> r.store])>>]

\* a slip: the loop is left at the first apply that fails
RECURSIVE applyAllStopsOnError(_, _, _)
applyAllStopsOnError(k, acc, faults) ==
  IF k > Len(acc.all) THEN acc
  ELSE LET next == applyUnstruct(k, acc, faults[k])
       IN IF next.errors[Len(next.errors)] # NoErr THEN next
          ELSE applyAllStopsOnError(k + 1, next, faults)

\* the loop over allUnstructured; faults[k] is what goes wrong with the
\* cluster while instance k is applied
RECURSIVE applyAll(_, _, _)
applyAll(k, acc, faults) ==
  IF k > Len(acc.all) THEN acc
  ELSE applyAll(k + 1, applyUnstruct(k, acc, faults[k]), faults)

\* what the config getter of the installer gives
ConfigErr == [kind |-> "ConfigError"]
InstallEntry(version, namespace, labels, annotations) ==
  [version |-> version, namespace |-> namespace,
   labels |-> labels, annotations |-> annotations]
EntryPool ==
  {InstallEntry("v1", "", {}, {}),
   InstallEntry("v2", "", {<<"app", "openebs">>}, {}),
   InstallEntry("v2", "openebs", {<<"tier", "storage">>}, {<<"owner", "decide">>}),
   InstallEntry("v3", "openebs", {}, {<<"owner", "decide">>}),
   InstallEntry("unknown", "", {}, {})}
Configs ==
  {[kind |-> "nilgetter"], [kind |-> "error"]}
    \cup {[kind |-> "ok", install |-> q] : q \in SeqsUpTo(EntryPool, MaxEntries)}

\* what can go wrong with the cluster during the applies of one run: at
\* most MaxFaults of the n applies meet a fault
RECURSIVE FaultPlans(_, _)
FaultPlans(n, m) ==
  IF m = 0 THEN {[k \in 1..n |-> "none"]}
  ELSE FaultPlans(n, m - 1)
         \cup {[p EXCEPT ![k] = f] :
                 p \in FaultPlans(n, m - 1), k \in 1..n, f \in Faults \ {"none"}}

\* the stores an installer starts against: empty, or holding older forms
\* of some of the objects
OldObject(k) == Unstruct(k[2], k[1], 2, {}, {})
InitStores ==
  {[k \in Keys |-> IF k \in P THEN OldObject(k) ELSE Absent] :
     P \in {{}, {<<"default", NameB>>}, {<<"openebs", NameA>>, <<"openebs", NameB>>}}}

Init ==
  /\ config \in Configs
  /\ store \in InitStores
  /\ errors = <<>>
  /\ runs = 0
  /\ lastRun = NoRun
  /\ options = AllOptions
  /\ applierNs = "default"
  /\ built = NotBuilt
  /\ pipe = NoPipe
  /\ catalog = NoCatalog
  /\ procs = NoProcs
  /\ inst = NoInst
  /\ lastApply = NoApply
  /\ prevApply = NoApply

\* what one Install call leaves: the list it returns, the events, the
\* instances it applied, the state it started from, and how many applies
\* of the call before it failed
Ran(acc, ret, faults) ==
  [done |-> TRUE, ret |-> ret, log |-> acc.log, all |-> acc.all,
   origins |-> acc.origins, faults |-> faults,
   before |-> store, after |-> acc.store, errorsBefore |-> errors,
   priorFailed |->
     IF lastRun.done
       THEN Cardinality({i \in 1..Len(lastRun.log) :
                           /\ lastRun.log[i].op = "apply"
                           /\ lastRun.log[i].val.err # NoErr})
       ELSE 0]

\* Install() with a nil config getter, or a config getter that fails
InstallNoConfig ==
  /\ runs < MaxRuns
  /\ config.kind \in {"nilgetter", "error"}
  /\ LET err == IF config.kind = "nilgetter"
                  THEN Errorf(<<"nil config getter: simple installer failed">>)
                  ELSE Wrap(ConfigErr, <<"simple installer failed">>)
     IN /\ errors' = addError(errors, err)
        /\ lastRun' = Ran(RunState(errors', store), errors', <<>>)
  /\ runs' = runs + 1
  /\ UNCHANGED <<store, config, options, applierNs, built, lastApply,
                 prevApply, pipe, catalog, procs, inst>>

\* Install() with a configuration
InstallConfig ==
  /\ runs < MaxRuns
  /\ config.kind = "ok"
  /\ LET mutated == installEntries(config.install, 1, RunState(errors, store))
     IN \E faults \in FaultPlans(Len(mutated.all), MaxFaults) :
          LET acc == applyAll(1, mutated, faults)
          IN /\ errors' = acc.errors
             /\ store' = acc.store
             /\ lastRun' = Ran(acc, acc.errors, faults)
  /\ runs' = runs + 1
  /\ UNCHANGED <<config, options, applierNs, built, lastApply, prevApply,
                 pipe, catalog, procs, inst>>

Next == InstallNoConfig \/ InstallConfig

Spec == Init /\ [][Next]_vars

(***************************************************************************)
(* Install, one collaborator call at a time.  inst holds the position of   *)
(* the call: pc, the entry e the first loop is at, the instance k the      *)
(* second loop is at, what the loops carry (acc), and the number of store  *)
(* calls that failed so far.                                               *)
(***************************************************************************)
InitSteps ==
  /\ config \in Configs
  /\ store \in InitStores
  /\ errors = <<>>
  /\ runs = 0
  /\ inst = NoInst
  /\ lastRun = NoRun
  /\ options = AllOptions
  /\ applierNs = "default"
  /\ built = NotBuilt
  /\ pipe = NoPipe
  /\ catalog = NoCatalog
  /\ procs = NoProcs
  /\ lastApply = NoApply
  /\ prevApply = NoApply

\* a client calls Install() on a fresh installer
CallInstall ==
  /\ inst.pc = "idle"
  /\ runs < MaxRuns
  /\ runs' = runs + 1
  /\ inst' = [pc |-> "config", e |-> 1, k |-> 1, faulted |-> 0,
              acc |-> RunState(errors, store)]
  /\ UNCHANGED <<store, errors, config, options, applierNs, built, lastApply,
                 prevApply, lastRun, pipe, catalog, procs>>

\* the nil check of the config getter and its call
GetConfig ==
  /\ inst.pc = "config"
  /\ IF config.kind = "nilgetter"
       THEN /\ errors' = addError(errors,
                 Errorf(<<"nil config getter: simple installer failed">>))
            /\ inst' = [inst EXCEPT !.pc = "returned", !.acc.errors = errors']
     ELSE IF config.kind = "error"
       THEN /\ errors' = addError(errors,
                                  Wrap(ConfigErr, <<"simple installer failed">>))
            /\ inst' = [inst EXCEPT !.pc = "returned", !.acc.errors = errors']
     ELSE /\ inst' = [inst EXCEPT !.pc = "entries"]
          /\ UNCHANGED errors
  /\ UNCHANGED <<store, runs, config, options, applierNs, built, lastApply,
                 prevApply, lastRun, pipe, catalog, procs>>

\* a slip: a listing that fails is tried again
EntryStepRetriesListing ==
  /\ inst.pc = "entries"
  /\ IF inst.e > Len(config.install)
       THEN inst' = [inst EXCEPT !.pc = "applies"]
     ELSE IF artifactLister(config.install[inst.e].version).err # NoErr
       THEN inst' = inst
     ELSE inst' = [inst EXCEPT
                     !.acc = installEntry(config.install[inst.e], inst.e, @),
                     !.e = @ + 1]
  /\ errors' = inst'.acc.errors
  /\ UNCHANGED <<store, runs, config, options, applierNs, built, lastApply,
                 prevApply, lastRun, pipe, catalog, procs>>

\* one iteration of the loop over config.Spec.Install, or its end
EntryStep ==
  /\ inst.pc = "entries"
  /\ IF inst.e > Len(config.install)
       THEN inst' = [inst EXCEPT !.pc = "applies"]
     ELSE inst' = [inst EXCEPT
                     !.acc = installEntry(config.install[inst.e], inst.e, @),
                     !.e = @ + 1]
  /\ errors' = inst'.acc.errors
  /\ UNCHANGED <<store, runs, config, options, applierNs, built, lastApply,
                 prevApply, lastRun, pipe, catalog, procs>>

\* one iteration of the loop over allUnstructured; fault is what goes wrong
\* with the cluster during this apply
ApplyStep(fault) ==
  /\ inst.pc = "applies"
  /\ inst.k <= Len(inst.acc.all)
  /\ fault = "none" \/ inst.faulted < MaxFaults
  /\ inst' = [inst EXCEPT
                !.acc = applyUnstruct(inst.k, @, fault),
                !.k = @ + 1,
                !.faulted = IF fault = "none" THEN @ ELSE @ + 1]
  /\ store' = inst'.acc.store
  /\ errors' = inst'.acc.errors
  /\ UNCHANGED <<runs, config, options, applierNs, built, lastApply,
                 prevApply, lastRun, pipe, catalog, procs>>

\* return i.errors
ReturnErrors ==
  /\ inst.pc = "applies"
  /\ inst.k > Len(inst.acc.all)
  /\ inst' = [inst EXCEPT !.pc = "returned"]
  /\ UNCHANGED <<store, errors, runs, config, options, applierNs, built,
                 lastApply, prevApply, lastRun, pipe, catalog, procs>>

\* the steps Install takes by itself once it is called
InstallStep ==
  \/ GetConfig
  \/ EntryStep
  \/ \E fault \in Faults : ApplyStep(fault)
  \/ ReturnErrors

NextSteps == CallInstall \/ InstallStep

\* every collaborator call returns: a call that can be made is made
SpecSteps == InitSteps /\ [][NextSteps]_vars /\ WF_vars(InstallStep)

(***************************************************************************)
(* Properties of apply                                                     *)
(***************************************************************************)
\* the invocations of primitive op in a list of calls
CallsOf(calls, op) == {i \in 1..Len(calls) : calls[i].op = op}

\* the last apply passed its argument checks and invoked options.Getter
Applied == lastApply.done /\ lastApply.obj # Nil /\ lastApply.got.called

\* the store slot the last apply addresses
ApplyKey == <<applierNs, lastApply.obj.name>>

\* what update, invoked on the store as the last apply found it, answers
UpdateResult ==
  NewResourceUpdater(applierNs, lastApply.obj, lastApply.before, lastApply.fault)

\* what create, invoked on the store as the last apply found it, answers
CreateResult ==
  NewResourceCreator(applierNs, lastApply.obj, lastApply.before, lastApply.fault)

\* C1: found path. Whenever get answered with an object and no error, apply
\* invoked update exactly once with the given object, did not invoke create,
\* and returned what update returned.
C1_FoundPathUpdates ==
  (Applied /\ lastApply.got.err = NoErr /\ lastApply.got.resource # Nil)
    => /\ Cardinality(CallsOf(lastApply.calls, "update")) = 1
       /\ \A i \in CallsOf(lastApply.calls, "update") :
            lastApply.calls[i].arg = lastApply.obj
       /\ CallsOf(lastApply.calls, "create") = {}
       /\ lastApply.resource = UpdateResult.resource
       /\ lastApply.err = UpdateResult.err
       /\ lastApply.after = UpdateResult.store

\* C2: not-found path. Whenever get answered NotFound, apply invoked create
\* exactly once with the given object, never invoked update, and returned
\* the object and the error create returned.
C2_NotFoundPathCreates ==
  (Applied /\ lastApply.got.err = NotFoundErr)
    => /\ Cardinality(CallsOf(lastApply.calls, "create")) = 1
       /\ \A i \in CallsOf(lastApply.calls, "create") :
            lastApply.calls[i].arg = lastApply.obj
       /\ CallsOf(lastApply.calls, "update") = {}
       /\ lastApply.resource = CreateResult.resource
       /\ lastApply.err = CreateResult.err
       /\ lastApply.after = CreateResult.store

\* a not-found apply whose create succeeded: the object is now stored
C2_Witness ==
  /\ Applied /\ lastApply.got.err = NotFoundErr
  /\ lastApply.err = NoErr
  /\ lastApply.before[ApplyKey] = Absent
  /\ store[ApplyKey] = lastApply.obj

\* get answered with an error that is not NotFound
GetFailed ==
  Applied /\ lastApply.got.err # NoErr /\ ~IsNotFound(lastApply.got.err)

\* C3 as stated: on a get error other than NotFound, apply invokes neither
\* create nor update and returns that very error, unchanged.
C3_GetErrorUnchanged ==
  GetFailed
    => /\ CallsOf(lastApply.calls, "create") = {}
       /\ CallsOf(lastApply.calls, "update") = {}
       /\ lastApply.err = lastApply.got.err

\* C3 amended: on a get error other than NotFound, apply invokes neither
\* create nor update, and returns a new error that wraps the get error: its
\* message is "failed to apply resource '<name>'" and its cause is the get
\* error.
C3_GetErrorWrapped ==
  GetFailed
    => /\ CallsOf(lastApply.calls, "create") = {}
       /\ CallsOf(lastApply.calls, "update") = {}
       /\ lastApply.err =
            [kind |-> "wrapped",
             msg |-> <<"failed to apply resource", lastApply.obj.name>>,
             cause |-> lastApply.got.err]
       /\ Cause(lastApply.err) = Cause(lastApply.got.err)

\* the server failed the Get call of an apply of a named object
C3_Witness ==
  /\ GetFailed
  /\ lastApply.got.err = StoreErr
  /\ lastApply.obj.name = NameA
  /\ lastApply.err = Wrap(StoreErr, <<"failed to apply resource", NameA>>)

\* the same object was applied twice in succession, every store call of
\* both applies was answered, and the first apply succeeded
AppliedTwice ==
  /\ prevApply.done /\ lastApply.done
  /\ lastApply.obj # Nil
  /\ prevApply.obj = lastApply.obj
  /\ prevApply.fault = "none" /\ lastApply.fault = "none"
  /\ prevApply.err = NoErr

\* C4: idempotence. After the same object is applied twice in succession,
\* the store is as the first apply left it and the second apply returns no
\* error.
C4_Idempotent ==
  AppliedTwice
    => /\ lastApply.after = prevApply.after
       /\ store = prevApply.after
       /\ lastApply.err = NoErr

\* the first apply created the object, the second one found it
C4_Witness ==
  /\ AppliedTwice
  /\ prevApply.before[ApplyKey] = Absent
  /\ prevApply.after[ApplyKey] = lastApply.obj
  /\ lastApply.got.called /\ lastApply.got.resource = lastApply.obj

\* C5: convergence. After an apply of D that returned no error, the store
\* holds exactly D under D's name, whether the name was absent or held a
\* different object before.
C5_Converges ==
  (Applied /\ lastApply.err = NoErr)
    => store[ApplyKey] = lastApply.obj

(***************************************************************************)
(* Properties of Install                                                   *)
(***************************************************************************)
\* the last Install call had a configuration to work from
Installed == lastRun.done /\ config.kind = "ok"

\* positions of the events of the last run with a given op
EventsOf(op) == {i \in 1..Len(lastRun.log) : lastRun.log[i].op = op}
\* positions of the events of kind op about document d of entry e
EventsAbout(op, e, d) ==
  {i \in EventsOf(op) : lastRun.log[i].entry = e /\ lastRun.log[i].doc = d}
\* positions of all events about the documents or instances of entry e
ObjectEventsOf(e) ==
  {i \in 1..Len(lastRun.log) :
     lastRun.log[i].entry = e /\ lastRun.log[i].op \notin {"list", "addError"}}

\* the applies of the last run that returned an error
FailedApplies == {i \in EventsOf("apply") : lastRun.log[i].val.err # NoErr}
\* the steps of the last run that failed: listings and decodes, and applies
FailedSteps == EventsOf("addError") \cup FailedApplies

\* the errors of the steps of a run, in order of occurrence: those of the
\* failed listings and decodes, and what each apply returned
RECURSIVE Recorded(_)
Recorded(log) ==
  IF log = <<>> THEN <<>>
  ELSE LET ev == Head(log)
       IN (CASE ev.op = "addError" -> <<ev.val>>
             [] ev.op = "apply" -> <<ev.val.err>>
             [] OTHER -> <<>>) \o Recorded(Tail(log))

\* the list Install returned is the list it started with, followed by what
\* the steps of the run recorded
ReturnsRecorded ==
  lastRun.ret = lastRun.errorsBefore \o Recorded(lastRun.log)

\* C6: partial-failure aggregation. The list Install returns has as many
\* entries as steps of the run failed; when exactly one of several applied
\* objects fails apply and nothing else fails, the list is exactly the
\* error of that apply.
C6_OneEntryPerFailure ==
  Installed
    => /\ Len(lastRun.ret) = Cardinality(FailedSteps)
       /\ \A i \in FailedApplies :
            (FailedSteps = {i} /\ Len(lastRun.all) >= 2)
              => lastRun.ret = <<lastRun.log[i].val.err>>

\* C7: fully successful run. When the configuration is resolved and every
\* listing, decode and apply of the run succeeds, Install returns an empty
\* list.
C7_SuccessReturnsEmpty ==
  (Installed /\ FailedSteps = {}) => Len(lastRun.ret) = 0

\* C8: configuration failure is fatal. When the config getter is missing or
\* fails, Install returns exactly one element, the wrapped failure, and
\* resolves, decodes, mutates and applies nothing.
C8_ConfigFailureSingleError ==
  (lastRun.done /\ config.kind \in {"nilgetter", "error"})
    => /\ Len(lastRun.ret) = 1
       /\ lastRun.ret[1] \in
            {Errorf(<<"nil config getter: simple installer failed">>),
             Wrap(ConfigErr, <<"simple installer failed">>)}
       /\ lastRun.log = <<>>
       /\ lastRun.all = <<>>
       /\ lastRun.after = lastRun.before

\* the entries of the configuration whose listing fails / succeeds
EntriesOf == 1..Len(config.install)
Listed(e) == artifactLister(config.install[e].version)
FailedEntries == {e \in EntriesOf : Listed(e).err # NoErr}
ListedEntries == EntriesOf \ FailedEntries
\* the documents of entry e that decode / do not decode
DocsOf(e) == 1..Len(Listed(e).list)
Decodable(e) == {d \in DocsOf(e) : BuildUnstructured(Listed(e).list[d].Doc).err = NoErr}
\* the instance Install is to apply for document d of entry e
Desired(e, d) ==
  UnstructuredUpdater(
    WithInstallUnstructuredUpdaterList(config.install[e], unstructuredUpdaters),
    BuildUnstructured(Listed(e).list[d].Doc).obj)

\* C9: artifact-resolution failure is non-fatal. For an entry whose listing
\* fails Install appends one error (the wrapped listing error) and no
\* object of it is decoded, mutated or applied; every document of every
\* other entry, earlier or later, is still decoded, every decodable one is
\* mutated and applied.
C9_ListFailureNonFatal ==
  Installed
    => /\ ReturnsRecorded
       /\ \A e \in FailedEntries :
            /\ Cardinality({i \in EventsOf("addError") :
                              lastRun.log[i].entry = e}) = 1
            /\ \A i \in EventsAbout("addError", e, 0) :
                 lastRun.log[i].val =
                   Wrap(Listed(e).err,
                     <<"simple installer failed to list artifacts for version",
                       config.install[e].version>>)
            /\ ObjectEventsOf(e) = {}
            /\ \A k \in 1..Len(lastRun.origins) : lastRun.origins[k][1] # e
       /\ \A e \in ListedEntries :
            /\ \A d \in Decodable(e) :
                 /\ Cardinality(EventsAbout("mutate", e, d)) = 1
                 /\ Cardinality(EventsAbout("apply", e, d)) = 1
                 /\ Cardinality(EventsAbout("get", e, d)) = 1
            /\ \A d \in DocsOf(e) \ Decodable(e) :
                 Cardinality(EventsAbout("addError", e, d)) = 1

\* a listing failed, and objects of an entry before it and of an entry
\* after it were applied and are stored
AppliedAndStored(e) ==
  \E i \in EventsOf("apply") :
    /\ lastRun.log[i].entry = e
    /\ lastRun.log[i].val.err = NoErr
    /\ store[<<lastRun.log[i].val.obj.ns, lastRun.log[i].val.obj.name>>]
         = lastRun.log[i].val.obj
C9_Witness ==
  /\ Installed
  /\ \E f \in FailedEntries :
       \E e \in ListedEntries : e > f /\ AppliedAndStored(e)

\* the same, with the entry that is applied listed before the failing one
C9_WitnessEarlier ==
  /\ Installed
  /\ \E f \in FailedEntries :
       \E e \in ListedEntries : e < f /\ AppliedAndStored(e)

\* C10: decode failure is non-fatal and individual. Every document that
\* fails to decode adds its decode error to the list, and every document of
\* the same entry that decodes is mutated once and, later, applied once in
\* its mutated form.
C10_DecodeFailureIndividual ==
  Installed
    => /\ ReturnsRecorded
       /\ \A e \in ListedEntries :
            /\ \A d \in DocsOf(e) \ Decodable(e) :
                 /\ Cardinality(EventsAbout("addError", e, d)) = 1
                 /\ \A i \in EventsAbout("addError", e, d) :
                      lastRun.log[i].val =
                        BuildUnstructured(Listed(e).list[d].Doc).err
                 /\ EventsAbout("mutate", e, d) = {}
                 /\ EventsAbout("apply", e, d) = {}
            /\ \A d \in Decodable(e) :
                 /\ Cardinality(EventsAbout("mutate", e, d)) = 1
                 /\ Cardinality(EventsAbout("apply", e, d)) = 1
                 /\ \A i \in EventsAbout("mutate", e, d),
                       j \in EventsAbout("apply", e, d) :
                      /\ i < j
                      /\ lastRun.log[i].val = Desired(e, d)
                      /\ lastRun.log[j].val.obj = Desired(e, d)

\* an entry with a document that does not decode between two that do: the
\* failure is in the returned list and both others were applied and stored
C10_Witness ==
  /\ Installed
  /\ \E e \in ListedEntries :
       /\ DocsOf(e) \ Decodable(e) # {}
       /\ Cardinality(Decodable(e)) >= 2
       /\ \A d \in Decodable(e) :
            \E j \in EventsAbout("apply", e, d) :
              /\ lastRun.log[j].val.err = NoErr
              /\ store[<<Desired(e, d).ns, Desired(e, d).name>>] = Desired(e, d)
       /\ \E k \in 1..Len(lastRun.ret) :
            lastRun.ret[k] =
              Wrap(DecodeErr, <<"failed to build unstructured instance">>)

\* position k of allUnstructured and the store slot its instance goes to
Instances == 1..Len(lastRun.all)
KeyOf(obj) == <<obj.ns, obj.name>>

\* C11: apply as much as possible. Install invokes apply exactly once for
\* every mutated instance it accumulated, in the order of accumulation and
\* with the mutated instance, whether or not an earlier apply failed.
C11_AppliesEveryObject ==
  Installed
    => /\ Cardinality(EventsOf("apply")) = Len(lastRun.all)
       /\ Cardinality(EventsOf("mutate")) = Len(lastRun.all)
       /\ \A k \in Instances :
            /\ Cardinality(EventsAbout("apply", lastRun.origins[k][1],
                                       lastRun.origins[k][2])) = 1
            /\ \A j \in EventsAbout("apply", lastRun.origins[k][1],
                                    lastRun.origins[k][2]) :
                 /\ lastRun.log[j].val.obj = lastRun.all[k]
                 /\ Cardinality({i \in EventsOf("apply") : i <= j}) = k

\* an apply failed and a later object of the same run was created
C11_Witness ==
  /\ Installed
  /\ \E i \in FailedApplies :
       \E j \in EventsOf("apply") :
         /\ i < j
         /\ lastRun.log[j].val.err = NoErr
         /\ lastRun.before[KeyOf(lastRun.log[j].val.obj)] = Absent
         /\ store[KeyOf(lastRun.log[j].val.obj)] = lastRun.log[j].val.obj

\* the applies of the last run that returned no error before apply j
SucceededBefore(j) ==
  {i \in EventsOf("apply") : i < j /\ lastRun.log[i].val.err = NoErr}

DesiredDocs == UNION {{<<e, d>> : d \in Decodable(e)} : e \in ListedEntries}
\* no two of them are to be stored in the same slot in different forms
NoConflict ==
  \A x, y \in DesiredDocs :
    KeyOf(Desired(x[1], x[2])) = KeyOf(Desired(y[1], y[2]))
      => Desired(x[1], x[2]) = Desired(y[1], y[2])

\* C13: re-running completes the install. After a run in which some applies
\* failed, a second run with the same configuration in which every store
\* call succeeds ends with every desired object stored in its desired form.
C13_RerunCompletes ==
  (/\ Installed /\ runs >= 2
   /\ lastRun.priorFailed > 0
   /\ \A k \in Instances : lastRun.faults[k] = "none"
   /\ NoConflict)
    => \A x \in DesiredDocs :
         store[KeyOf(Desired(x[1], x[2]))] = Desired(x[1], x[2])

(***************************************************************************)
(* Properties of the applier's argument checks                             *)
(***************************************************************************)
\* the applier was built from options that lack a primitive
Misconfigured == built.done /\ options # AllOptions

MissingPrimitiveError ==
  IF ~options.Getter
    THEN Errorf(<<"nil resource getter instance: failed to apply resource">>)
  ELSE IF ~options.Creator
    THEN Errorf(<<"nil resource creator instance: failed to apply resource">>)
  ELSE Errorf(<<"nil resource updater instance: failed to apply resource">>)

C15_NilRejected ==
  (lastApply.done /\ lastApply.obj = Nil)
    => /\ lastApply.err # NoErr
       /\ lastApply.resource = Nil
       /\ lastApply.calls = <<>>
       /\ lastApply.storeOps = <<>>
       /\ lastApply.after = lastApply.before
       /\ options = AllOptions
            => lastApply.err =
                 Errorf(<<"nil resource instance: failed to apply resource">>)

\* a fully configured applier was handed a nil object
C15_Witness ==
  /\ built.done /\ options = AllOptions
  /\ lastApply.done /\ lastApply.obj = Nil
  /\ lastApply.err = Errorf(<<"nil resource instance: failed to apply resource">>)

\* the last apply was made by an applier with all three primitives, as
\* NewResourceApplier builds it, on an object whose name is blank
BlankApplied ==
  /\ built.done /\ options = AllOptions
  /\ lastApply.done /\ lastApply.obj # Nil
  /\ lastApply.obj.name \in BlankNames

\* C16: blank name. Such an apply returns an error, makes no call to the
\* store, neither read nor write, and invokes neither create nor update.
C16_BlankNameRejected ==
  BlankApplied
    => /\ lastApply.err # NoErr
       /\ lastApply.storeOps = <<>>
       /\ CallsOf(lastApply.calls, "create") = {}
       /\ CallsOf(lastApply.calls, "update") = {}
       /\ lastApply.after = lastApply.before

\* an object named by a single space was applied with a working cluster
C16_Witness ==
  /\ BlankApplied
  /\ lastApply.obj.name = <<" ">>
  /\ lastApply.fault = "none"
  /\ lastApply.err =
       Wrap(Errorf(<<"missing resource name: failed to get resource">>),
            <<"failed to apply resource", <<" ">>>>)

(***************************************************************************)
(* Properties of the updater pipeline                                      *)
(***************************************************************************)
\* u_k( ... u_2(u_1(x)) ... ): the output of stage k of a list of updaters,
\* stage 0 being the instance given
RECURSIVE StageOutput(_, _, _)
StageOutput(us, x, k) ==
  IF k = 0 THEN x ELSE RunMiddleware(us[k], StageOutput(us, x, k - 1))

\* C17: composition order. UnstructuredUpdater([u1..un])(x) is
\* un(...u2(u1(x))...): each updater receives what the one before it
\* returned; with an empty list the result is x itself.
C17_ComposesInListOrder ==
  pipe.done
    => /\ pipe.updated = StageOutput(pipe.updaters, pipe.given, Len(pipe.updaters))
       /\ pipe.updaters = <<>> => pipe.updated = pipe.given

\* two updaters were composed whose order matters: the result is the
\* second applied to the output of the first, and the other order would
\* have given another instance
C17_Witness ==
  /\ pipe.done /\ Len(pipe.updaters) = 2
  /\ pipe.updated =
       RunMiddleware(pipe.updaters[2], RunMiddleware(pipe.updaters[1], pipe.given))
  /\ pipe.updated #
       RunMiddleware(pipe.updaters[1], RunMiddleware(pipe.updaters[2], pipe.given))

NamespaceStage(e) == Middleware("updateUnstructuredNamespace", e)
LabelStage(e) == Middleware("updateUnstructuredLabels", e)

\* C18: disjoint mutations commute. A namespace override N and a label
\* merge L composed as [N, L] or as [L, N] give the same namespace and the
\* same labels: the namespace N sets (the given one when N's value is
\* empty) and the given labels overwritten and extended by those of L; the
\* other fields are as given.
C18_DisjointCommute ==
  pipe.done
    => \A n, l \in StageEntries :
         pipe.updaters \in {<<NamespaceStage(n), LabelStage(l)>>,
                            <<LabelStage(l), NamespaceStage(n)>>}
           => /\ pipe.updated.ns =
                   (IF n.namespace = "" THEN pipe.given.ns ELSE n.namespace)
              /\ pipe.updated.labels =
                   {p \in pipe.given.labels : \A q \in l.labels : q[1] # p[1]}
                     \cup l.labels
              /\ pipe.updated.name = pipe.given.name
              /\ pipe.updated.body = pipe.given.body
              /\ pipe.updated.annotations = pipe.given.annotations

\* the label merge was composed before the namespace override, both change
\* the instance, and the result shows both changes
C18_Witness ==
  /\ pipe.done
  /\ \E n, l \in StageEntries :
       /\ pipe.updaters = <<LabelStage(l), NamespaceStage(n)>>
       /\ n.namespace # "" /\ n.namespace # pipe.given.ns
       /\ pipe.updated.ns = n.namespace
       /\ l.labels \subseteq pipe.updated.labels
       /\ ~(l.labels \subseteq pipe.given.labels)
       /\ \E p \in pipe.given.labels : p \in pipe.updated.labels

\* the list run was made of two composed updaters
Nested ==
  /\ pipe.done /\ Len(pipe.updaters) = 2
  /\ pipe.updaters[1].fn = "UnstructuredUpdater"
  /\ pipe.updaters[2].fn = "UnstructuredUpdater"

\* C19: pipelines of pipelines. Composing UnstructuredUpdater(A) and
\* UnstructuredUpdater(B) gives, on every instance, what the updaters of A
\* followed by those of B give when run one after the other.
C19_NestingFlattens ==
  Nested
    => LET flat == pipe.updaters[1].updaters \o pipe.updaters[2].updaters
       IN pipe.updated = StageOutput(flat, pipe.given, Len(flat))

\* two non-empty composed updaters were composed, and both changed the
\* instance
C19_Witness ==
  /\ Nested
  /\ pipe.updaters[1].updaters # <<>>
  /\ pipe.updaters[2].updaters # <<>>
  /\ LET mid == StageOutput(pipe.updaters[1].updaters, pipe.given,
                            Len(pipe.updaters[1].updaters))
     IN mid # pipe.given /\ pipe.updated # mid

(***************************************************************************)
(* The pipeline Install runs                                               *)
(***************************************************************************)
\* the functions of the repository that assign a resource type
ResourceTypeStages ==
  {"WithGVRCasTemplateUpdaterFor070", "WithGVRRunTaskUpdaterFor070"}

\* the names of the updaters composed at log position i, in order
StageNames(i) ==
  [k \in 1..Len(lastRun.log[i].val.updaters) |-> lastRun.log[i].val.updaters[k].fn]
\* the positions of the stage called fn in a list of stage names
StagesNamed(names, F) == {k \in 1..Len(names) : names[k] \in F}

Overridden(install, given) ==
  [given EXCEPT
     !.ns = IF install.namespace = "" THEN @ ELSE install.namespace,
     !.labels = {p \in @ : \A q \in install.labels : q[1] # p[1]}
                  \cup install.labels,
     !.annotations = {p \in @ : \A q \in install.annotations : q[1] # p[1]}
                       \cup install.annotations]

CasTemplateGVR == GroupVersionResource("openebs.io", "v1alpha1", "castemplates")
RunTaskGVR == GroupVersionResource("openebs.io", "v1alpha1", "runtasks")
\* the artifacts a call returned, as a set of positions
Returned == 1..Len(catalog.list)

\* C21: resource-type assignment in the 0.7.0 catalog. Every artifact of
\* cstorVolumeCASTemplatesFor070 carries (openebs.io, v1alpha1,
\* castemplates), every artifact of cstorVolumeRunTasksFor070 carries
\* (openebs.io, v1alpha1, runtasks), and no artifact of
\* CstorVolumeArtifactsFor070 has an empty descriptor; a list updater gives
\* its descriptor to every artifact it is handed and changes no document.
C21_CatalogDescriptors ==
  catalog.done
    => /\ Len(catalog.list) = Len(catalog.given)
       /\ \A i \in Returned : catalog.list[i].Doc = catalog.given[i].Doc
       /\ catalog.fn \in {"cstorVolumeCASTemplatesFor070",
                          "WithGVRCasTemplateListUpdaterFor070"}
            => \A i \in Returned :
                 catalog.list[i].GroupVersionResource = CasTemplateGVR
       /\ catalog.fn \in {"cstorVolumeRunTasksFor070",
                          "WithGVRRunTaskListUpdaterFor070"}
            => \A i \in Returned :
                 catalog.list[i].GroupVersionResource = RunTaskGVR
       /\ catalog.fn = "CstorVolumeArtifactsFor070"
            => \A i \in Returned :
                 /\ catalog.list[i].GroupVersionResource # EmptyGVR
                 /\ catalog.given[i].GroupVersionResource = EmptyGVR

\* the whole cstor catalog was built: templates and run tasks, each kind
\* with its own descriptor
C21_Witness ==
  /\ catalog.done /\ catalog.fn = "CstorVolumeArtifactsFor070"
  /\ \E i, j \in Returned :
       /\ catalog.list[i].GroupVersionResource = CasTemplateGVR
       /\ catalog.list[j].GroupVersionResource = RunTaskGVR
       /\ catalog.list[i].Doc.name = "cstor-volume-create-default-0.7.0"
       /\ catalog.list[j].Doc.name = "cstor-volume-delete-output-default-0.7.0"

\* the group and version an apiVersion declares: "group/version", or a
\* bare "version" of the core group
ParseGroupVersion(apiVersion) ==
  IF Len(apiVersion) = 1 THEN <<"", apiVersion[1]>>
  ELSE <<apiVersion[1], apiVersion[2]>>
\* the plural resource name of a kind
ResourceOfKind(kind) ==
  CASE kind = "CASTemplate" -> "castemplates"
    [] kind = "RunTask" -> "runtasks"
    [] kind = "ConfigMap" -> "configmaps"

\* C22: descriptor and document are consistent. For every artifact of the
\* 0.7.0 catalog the group and version of its descriptor are those of the
\* apiVersion its document declares, and the resource is the plural of the
\* kind it declares.
C22_DescriptorMatchesDocument ==
  catalog.done /\ catalog.fn \in {"cstorVolumeCASTemplatesFor070",
                                  "cstorVolumeRunTasksFor070",
                                  "CstorVolumeArtifactsFor070"}
    => \A i \in Returned :
         LET a == catalog.list[i]
         IN /\ <<a.GroupVersionResource.Group, a.GroupVersionResource.Version>>
                 = ParseGroupVersion(a.Doc.apiVersion)
            /\ a.GroupVersionResource.Resource = ResourceOfKind(a.Doc.kind)

(***************************************************************************)
(* Properties of one apply: calls made                                     *)
(***************************************************************************)
\* the positions in a list of API server calls that are writes
StoreWrites(ops) == {i \in 1..Len(ops) : ops[i] \in {"Create", "Update"}}
\* the last apply invoked create or update, and it returned an error
WriteFailed ==
  /\ Applied
  /\ CallsOf(lastApply.calls, "create") \cup CallsOf(lastApply.calls, "update") # {}
  /\ lastApply.err # NoErr

\* C23: no retry in apply. An apply that passes its argument checks
\* invokes get exactly once, first, and at most one of create and update,
\* at most once; the API server sees at most one read and one write. A
\* write that fails is returned to the caller as it failed, the store is
\* left as it was found, and no call follows it.
C23_NoRetry ==
  Applied
    => /\ Cardinality(CallsOf(lastApply.calls, "get")) = 1
       /\ lastApply.calls[1].op = "get"
       /\ Cardinality(CallsOf(lastApply.calls, "create")
                        \cup CallsOf(lastApply.calls, "update")) <= 1
       /\ Len(lastApply.calls) <= 2
       /\ Cardinality(StoreWrites(lastApply.storeOps)) <= 1
       /\ Cardinality({i \in 1..Len(lastApply.storeOps) :
                         lastApply.storeOps[i] = "Get"}) <= 1
       /\ WriteFailed
            => /\ lastApply.err = CreateResult.err
               /\ lastApply.resource = Nil
               /\ lastApply.after = lastApply.before

\* get answered NotFound, the create that followed was refused by the
\* server, and apply returned that error after these two calls
C23_Witness ==
  /\ WriteFailed
  /\ lastApply.fault = "write"
  /\ lastApply.err = StoreErr
  /\ lastApply.calls = <<Call("get", lastApply.obj.name),
                         Call("create", lastApply.obj)>>
  /\ lastApply.storeOps = <<"Get", "Create">>
  /\ store[ApplyKey] = Absent

\* C24: missing primitive at apply time. When one of get, create and
\* update is missing from the options, every apply call returns an error
\* and a nil object, invokes no primitive that is present, and leaves the
\* store untouched.
C24_MissingPrimitiveNoCalls ==
  (lastApply.done /\ ~(options.Getter /\ options.Creator /\ options.Updater))
    => /\ lastApply.err # NoErr
       /\ lastApply.resource = Nil
       /\ lastApply.got = NotCalled
       /\ CallsOf(lastApply.calls, "get") = {}
       /\ CallsOf(lastApply.calls, "create") = {}
       /\ CallsOf(lastApply.calls, "update") = {}
       /\ lastApply.storeOps = <<>>
       /\ store = lastApply.before

\* only the updater is missing, the object handed over is not stored: get
\* was not called and nothing was created
C24_Witness ==
  /\ lastApply.done
  /\ options.Getter /\ options.Creator /\ ~options.Updater
  /\ lastApply.obj # Nil /\ lastApply.obj.name \in StoreNames
  /\ lastApply.before[ApplyKey] = Absent
  /\ store[ApplyKey] = Absent
  /\ lastApply.err # NoErr
  /\ lastApply.calls = <<>>

(***************************************************************************)
(* Order of the steps of one Install run                                   *)
(***************************************************************************)
\* positions of the steps of the entry loop: listing, recording a listing
\* or decode error, composing the updaters, mutating
EntrySteps ==
  EventsOf("list") \cup EventsOf("addError") \cup EventsOf("compose")
    \cup EventsOf("mutate")
\* positions of the calls of the primitives, and of the applies
StoreCalls == EventsOf("get") \cup EventsOf("create") \cup EventsOf("update")
ApplySteps == StoreCalls \cup EventsOf("apply")

\* C25: mutate all, then apply. Within one Install run every store call
\* (get, create, update) and every apply comes after the last step of the
\* entry loop; the steps of the entry loop go entry by entry, and the
\* applies follow the order in which the instances were accumulated: by
\* entry, and within an entry by document.
C25_MutateAllThenApply ==
  Installed
    => /\ \A i \in EntrySteps : \A j \in ApplySteps : i < j
       /\ \A i, j \in EntrySteps :
            lastRun.log[i].entry < lastRun.log[j].entry => i < j
       /\ \A i, j \in EventsOf("apply") :
            (i < j) <=>
              \/ lastRun.log[i].entry < lastRun.log[j].entry
              \/ /\ lastRun.log[i].entry = lastRun.log[j].entry
                 /\ lastRun.log[i].doc < lastRun.log[j].doc
       /\ \A j \in StoreCalls :
            \E a \in EventsOf("apply") :
              /\ j < a
              /\ lastRun.log[a].entry = lastRun.log[j].entry
              /\ lastRun.log[a].doc = lastRun.log[j].doc
              /\ \A b \in EventsOf("apply") : ~(j < b /\ b < a)

\* a run of two entries that both gave instances: the first object was
\* created only after the last instance of the second entry was mutated
C25_Witness ==
  /\ Installed
  /\ \E m \in EventsOf("mutate"), c \in EventsOf("create") :
       /\ lastRun.log[m].entry = Len(config.install)
       /\ Len(config.install) > 1
       /\ lastRun.log[c].entry < lastRun.log[m].entry
       /\ m < c
       /\ \A j \in StoreCalls : m < j

\* the errors of the steps of a run from log position i on, in order of
\* occurrence: those recorded in the entry loop and those apply returned
RECURSIVE ErrorsFrom(_, _)
ErrorsFrom(log, i) ==
  IF i > Len(log) THEN <<>>
  ELSE (IF log[i].op = "addError" THEN <<log[i].val>>
        ELSE IF log[i].op = "apply" /\ log[i].val.err # NoErr
          THEN <<log[i].val.err>>
        ELSE <<>>) \o ErrorsFrom(log, i + 1)

ApplyNamespace(e, d) ==
  IF config.install[e].namespace # ""
    THEN config.install[e].namespace
    ELSE BuildUnstructured(Listed(e).list[d].Doc).obj.ns
\* the store as apply number a of the last run found it
StoreBefore(a) ==
  LET earlier == {b \in EventsOf("apply") : b < a}
  IN IF earlier = {} THEN lastRun.before
     ELSE lastRun.log[CHOOSE b \in earlier : \A c \in earlier : c <= b].val.after

\* C27: apply namespace follows the mutated object. Every get, create and
\* update of a run is made in the namespace of the mutated instance: the
\* entry's override when it is not empty, the namespace the document
\* declares otherwise; an apply changes the store at most under that
\* namespace and the instance's name.
C27_NamespaceOfMutatedObject ==
  Installed
    => /\ \A j \in StoreCalls :
            lastRun.log[j].val =
              ApplyNamespace(lastRun.log[j].entry, lastRun.log[j].doc)
       /\ \A a \in EventsOf("apply") :
            /\ lastRun.log[a].val.obj.ns =
                 ApplyNamespace(lastRun.log[a].entry, lastRun.log[a].doc)
            /\ \A key \in Keys :
                 lastRun.log[a].val.after[key] # StoreBefore(a)[key]
                   => key = <<ApplyNamespace(lastRun.log[a].entry,
                                             lastRun.log[a].doc),
                              lastRun.log[a].val.obj.name>>

\* one run created the same document in two namespaces: in the override
\* namespace of one entry and, for an entry without override, in the
\* namespace the document declares
C27_Witness ==
  /\ Installed
  /\ \E a, b \in EventsOf("apply") :
       /\ config.install[lastRun.log[a].entry].namespace = ""
       /\ config.install[lastRun.log[b].entry].namespace = "openebs"
       /\ lastRun.log[a].val.obj.name = lastRun.log[b].val.obj.name
       /\ lastRun.log[a].val.err = NoErr /\ lastRun.log[b].val.err = NoErr
       /\ lastRun.before[<<"default", lastRun.log[a].val.obj.name>>] = Absent
       /\ lastRun.before[<<"openebs", lastRun.log[b].val.obj.name>>] = Absent
       /\ store[<<"default", lastRun.log[a].val.obj.name>>] = lastRun.log[a].val.obj
       /\ store[<<"openebs", lastRun.log[b].val.obj.name>>] = lastRun.log[b].val.obj

(***************************************************************************)
(* Termination of Install                                                  *)
(***************************************************************************)
\* C28: termination. Every call of Install returns, whatever the
\* configuration and the artifact lists hold and whichever of the calls it
\* makes fail.
C28_Terminates == (inst.pc = "config") ~> (inst.pc = "returned")

\* a call has returned after a listing failed, a document did not decode,
\* an apply failed and another apply created its object
C28_Witness ==
  /\ inst.pc = "returned"
  /\ \E i, j, a, b \in 1..Len(inst.acc.log) :
       /\ inst.acc.log[i].op = "list" /\ inst.acc.log[i].val # NoErr
       /\ inst.acc.log[j].op = "addError" /\ inst.acc.log[j].doc # 0
       /\ inst.acc.log[a].op = "apply" /\ inst.acc.log[a].val.err # NoErr
       /\ inst.acc.log[b].op = "create"

(***************************************************************************)
(* The error list across Install calls                                     *)
(***************************************************************************)
\* the number of entries the last call itself added to the error list: one
\* for a configuration failure, otherwise one for every listing or decode
\* error and one for every apply
AddedByLastRun ==
  IF config.kind = "ok"
    THEN Cardinality(EventsOf("addError")) + Cardinality(EventsOf("apply"))
    ELSE 1

\* C29: no error carry-over between runs. The list an Install call returns
\* holds only what that call recorded; nothing an earlier call on the same
\* installer recorded is in it.
C29_NoCarryOver ==
  lastRun.done
    => /\ Len(lastRun.ret) = AddedByLastRun
       /\ Len(lastRun.errorsBefore) > 0
            => SubSeq(lastRun.ret, 1, Len(lastRun.errorsBefore))
                 # lastRun.errorsBefore

(***************************************************************************)
(* Apply invocations that run at the same time                             *)
(***************************************************************************)
\* every invocation has returned
AllReturned == \A i \in Invocations : procs[i].pc = "done"
\* the store slot the invocations address
SharedKey == <<applierNs, procs[1].obj.name>>
\* the name was absent when every invocation called get
RacedFromAbsent ==
  AllReturned /\ \A i \in Invocations : IsNotFound(procs[i].got.err)
\* the name was absent when the first of the invocations called get
StartedAbsent ==
  AllReturned /\ \E i \in Invocations : procs[i].before[SharedKey] = Absent

\* C30 as stated: when the invocations for one name start against a store
\* in which the name is absent, under every interleaving of their calls
\* all of them return without error and the store ends holding the object.
C30_BothSucceed ==
  StartedAbsent
    => /\ \A i \in Invocations : procs[i].err = NoErr
       /\ store[SharedKey] # Absent

\* C30: concurrent applies of one name, initially absent. Under every
\* interleaving the store ends holding the object of the one invocation
\* whose create succeeded. An invocation whose get came before that create
\* and whose own create came after it returns the error of its create, the
\* object already exists, and a nil object; an invocation whose get came
\* after that create returns the stored object without error and writes
\* nothing.
C30_OneCreateWins ==
  StartedAbsent
    => /\ \E w \in Invocations :
            /\ IsNotFound(procs[w].got.err)
            /\ procs[w].err = NoErr
            /\ procs[w].resource = procs[w].obj
            /\ store[SharedKey] = procs[w].obj
            /\ \A i \in Invocations \ {w} :
                 IF IsNotFound(procs[i].got.err)
                   THEN /\ procs[i].err = AlreadyExistsErr
                        /\ procs[i].resource = Nil
                        /\ procs[i].calls = <<Call("get", procs[i].obj.name),
                                              Call("create", procs[i].obj)>>
                   ELSE /\ procs[i].err = NoErr
                        /\ procs[i].resource = procs[w].obj
                        /\ procs[i].calls = <<Call("get", procs[i].obj.name)>>

\* both invocations called get before either created: one create was
\* refused, and the store holds the object of the other
C30_Witness ==
  /\ RacedFromAbsent
  /\ \E i, w \in Invocations :
       /\ procs[i].err = AlreadyExistsErr
       /\ procs[w].err = NoErr
       /\ procs[i].obj # procs[w].obj
       /\ store[SharedKey] = procs[w].obj

(***************************************************************************)
(* References between the artifacts of the 0.7.0 catalog                   *)
(***************************************************************************)
\* the run-task names a CAS template document refers to
TasksOf(doc) == {doc.tasks[k] : k \in 1..Len(doc.tasks)} \cup {doc.output}
\* the metadata names of the run tasks cstorVolumeRunTasksFor070 returns
RunTaskNames ==
  {cstorVolumeRunTasksFor070[j].Doc.name : j \in 1..Len(cstorVolumeRunTasksFor070)}
\* the CAS templates among the artifacts the last call returned
ReturnedTemplates == {i \in Returned : catalog.list[i].Doc.kind = "CASTemplate"}

\* C31: catalog referential integrity. Every run-task name a CAS template
\* of cstorVolumeCASTemplatesFor070 lists under run.tasks or names as
\* output is the metadata name of an artifact of cstorVolumeRunTasksFor070;
\* the artifacts of CstorVolumeArtifactsFor070 hold, with the run-task
\* descriptor, every task their templates refer to.
C31_TasksRegistered ==
  /\ (catalog.done /\ catalog.fn = "cstorVolumeCASTemplatesFor070")
       => \A i \in ReturnedTemplates :
            TasksOf(catalog.list[i].Doc) \subseteq RunTaskNames
  /\ (catalog.done /\ catalog.fn = "CstorVolumeArtifactsFor070")
       => \A i \in ReturnedTemplates :
            \A t \in TasksOf(catalog.list[i].Doc) :
              \E j \in Returned :
                /\ catalog.list[j].Doc.name = t
                /\ catalog.list[j].GroupVersionResource = RunTaskGVR

====
